---- MODULE Spec2Model ----
(***************************************************************************)
(* Scoring and session state of the FinTech AI Ethics & Governance         *)
(* Toolkit (src/app.py): the risk-identification questionnaire, the        *)
(* ethical-assessment checklist and the three session variables.           *)
(*                                                                         *)
(* Python floats are modelled as exact rationals <<numerator, denominator>>*)
(* in lowest terms with a positive denominator.  Every weight of the       *)
(* program (3, 2, 1, 0.5, 1.0, 0.9, 0.85, 0.8) and every partial credit    *)
(* (w * 0.5) is such a rational.  A division by zero is the value          *)
(* ZeroDivisionError, which the handlers turn into a raised exception.     *)
(***************************************************************************)
EXTENDS Integers, Sequences, FiniteSets, TLC

(***************************************************************************)
(* Bounds of the model.                                                    *)
(***************************************************************************)
\* largest value of the clock that stamps the saved records
MaxClock == 2
\* largest number of records in completed_assessments
MaxHistory == 2
\* checklist inputs: items of one section that deviate from a uniform sheet
MaxChanged == 1
\* overall-score inputs: number of category (section) results drawn
MaxResults == 2
\* session: number of answers of a page that are off their default
MaxEdits == 1
\* session: the categories (sections), and the questions (items) of each,
\* whose answers are edited
MaxEditable == 1
\* scenario inputs: options selected in a multiselect that earn no points
MaxExtras == 1

(***************************************************************************)
(* Rational arithmetic for Python's float expressions.                     *)
(***************************************************************************)
Abs(x) == IF x < 0 THEN -x ELSE x

RECURSIVE GCD(_, _)
GCD(a, b) == IF b = 0 THEN a ELSE GCD(b, a % b)

\* the value of an expression in which a division by zero was raised
ZeroDivisionError == <<0, 0>>

\* n / d in lowest terms; an operand that is an error gives the error
Norm(n, d) ==
    IF d = 0 THEN ZeroDivisionError
    ELSE LET g == GCD(Abs(n), Abs(d))
             s == IF d < 0 THEN -1 ELSE 1
         IN  <<(s * n) \div g, (s * d) \div g>>

IsError(a) == a[2] = 0

Rat(n) == <<n, 1>>

\* a + b over the least common denominator
RAdd(a, b) ==
    IF IsError(a) \/ IsError(b) THEN ZeroDivisionError
    ELSE LET l == (a[2] \div GCD(a[2], b[2])) * b[2]
         IN  Norm(a[1] * (l \div a[2]) + b[1] * (l \div b[2]), l)

RMul(a, b) == Norm(a[1] * b[1], a[2] * b[2])

RDiv(a, b) ==
    IF b[1] = 0 THEN ZeroDivisionError ELSE Norm(a[1] * b[2], a[2] * b[1])

RLt(a, b) == a[1] * b[2] < b[1] * a[2]

RLe(a, b) == a[1] * b[2] <= b[1] * a[2]

RGe(a, b) == RLe(b, a)

RGt(a, b) == RLt(b, a)

(***************************************************************************)
(* Static configuration of the risk-identification tool.                   *)
(***************************************************************************)
\* the keys of risk_categories, in declaration order
Categories ==
    << "Fairness & Discrimination", "Transparency & Explainability",
       "Data Quality & Privacy", "Security & Robustness",
       "Accountability & Governance", "Regulatory Compliance" >>

CategorySet == {Categories[k] : k \in 1..Len(Categories)}

\* risk_categories[c]["questions"]: the weights of the questions, in order
\* risk_categories[c]["weight"]: the category weight
risk_categories ==
    [c \in CategorySet |->
        CASE c = "Fairness & Discrimination" ->
                [questions |-> <<3, 3, 2, 2, 2>>, weight |-> Norm(100, 100)]
          [] c = "Transparency & Explainability" ->
                [questions |-> <<3, 2, 3, 2, 2>>, weight |-> Norm(90, 100)]
          [] c = "Data Quality & Privacy" ->
                [questions |-> <<3, 2, 2, 2, 2>>, weight |-> Norm(85, 100)]
          [] c = "Security & Robustness" ->
                [questions |-> <<2, 2, 2, 3, 2>>, weight |-> Norm(80, 100)]
          [] c = "Accountability & Governance" ->
                [questions |-> <<3, 2, 2, 2, 2>>, weight |-> Norm(90, 100)]
          [] c = "Regulatory Compliance" ->
                [questions |-> <<3, 3, 2, 2, 2>>, weight |-> Norm(100, 100)]]

\* the options of a questionnaire radio, in order; the first is the default
RadioOptions ==
    << "Yes - Fully Implemented", "Partial - In Progress",
       "No - Not Addressed", "N/A" >>

RadioSet == {RadioOptions[k] : k \in 1..Len(RadioOptions)}

\* DefaultResponses with the radios preselecting their last option
DefaultResponsesLastOption ==
    [c \in CategorySet |->
        [i \in 1..Len(risk_categories[c].questions) |->
            RadioOptions[Len(RadioOptions)]]]

\* the widget state of an untouched questionnaire page
DefaultResponses ==
    [c \in CategorySet |->
        [i \in 1..Len(risk_categories[c].questions) |-> RadioOptions[1]]]

(***************************************************************************)
(* The scoring loop of the risk tool.                                      *)
(***************************************************************************)
\* The accumulators of the scoring loops hold exact multiples of 0.25 (every
\* weight and every partial credit w * 0.5 is one), kept as a count of quarters.
Quarters(r) == (4 * r[1]) \div r[2]

\* RiskCredit with the partial credit written weight * 1.5
RiskCreditPartialOver(weight, response) ==
    LET w == Quarters(Rat(weight))
    IN  IF response = "Yes - Fully Implemented" THEN w
        ELSE IF response = "Partial - In Progress" THEN w + w \div 2
        ELSE 0

\* one pass of the inner loop: what it adds to category_score, in quarters
RiskCredit(weight, response) ==
    LET w == Quarters(Rat(weight))
    IN  IF response = "Yes - Fully Implemented" THEN w
        ELSE IF response = "Partial - In Progress" THEN w \div 2
        ELSE 0

\* RiskCounted with max_score += weight skipped for N/A, the -= kept
RiskCountedNASubtracts(weight, response) ==
    LET w == Quarters(Rat(weight))
    IN  IF response = "N/A" THEN 0 - w ELSE w

\* RiskCounted with the N/A branch missing: N/A counts like "No"
RiskCountedNACounts(weight, response) == Quarters(Rat(weight))

\* one pass of the inner loop: what it leaves in max_score, in quarters
\* (max_score += weight, and max_score -= weight in the N/A branch)
RiskCounted(weight, response) ==
    LET w == Quarters(Rat(weight))
    IN  IF response = "Yes - Fully Implemented" THEN w
        ELSE IF response = "Partial - In Progress" THEN w
        ELSE IF response = "N/A" THEN w - w
        ELSE w

\* category_score after the first n questions
RECURSIVE RiskCategoryScore(_, _, _)
RiskCategoryScore(questions, answers, n) ==
    IF n = 0 THEN 0
    ELSE RiskCategoryScore(questions, answers, n - 1)
            + RiskCredit(questions[n], answers[n])

\* max_score after the first n questions
RECURSIVE RiskMaxScore(_, _, _)
RiskMaxScore(questions, answers, n) ==
    IF n = 0 THEN 0
    ELSE RiskMaxScore(questions, answers, n - 1)
            + RiskCounted(questions[n], answers[n])

\* CategoryScore without the max_score > 0 guard
CategoryScoreNoGuard(questions, answers) ==
    RMul(RDiv(Rat(RiskCategoryScore(questions, answers, Len(questions))),
              Rat(RiskMaxScore(questions, answers, Len(questions)))),
         Rat(100))

\* the score of one category: the value stored in risk_scores[c]["score"]
CategoryScore(questions, answers) ==
    LET category_score == RiskCategoryScore(questions, answers, Len(questions))
        max_score == RiskMaxScore(questions, answers, Len(questions))
    IN  IF max_score > 0
            THEN RMul(RDiv(Rat(category_score), Rat(max_score)), Rat(100))
            ELSE Rat(100)

\* RiskScores with no entry for a category whose max_score is 0
RiskScoresSkipsEmpty(resp) ==
    [c \in {k \in CategorySet :
                RiskMaxScore(risk_categories[k].questions, resp[k],
                             Len(risk_categories[k].questions)) > 0} |->
        [score  |-> CategoryScore(risk_categories[c].questions, resp[c]),
         weight |-> risk_categories[c].weight]]

\* the dict risk_scores the questionnaire loop builds from the radios
RiskScores(resp) ==
    [c \in CategorySet |->
        [score  |-> CategoryScore(risk_categories[c].questions, resp[c]),
         weight |-> risk_categories[c].weight]]

(***************************************************************************)
(* Static configuration of the ethical-assessment checklist.               *)
(***************************************************************************)
\* the keys of assessment_sections, in declaration order
Sections ==
    << "1. Fairness & Non-Discrimination", "2. Transparency & Explainability",
       "3. Accountability & Governance", "4. Data Quality & Privacy",
       "5. Security & Robustness", "6. Human Oversight",
       "7. Consumer Protection", "8. Regulatory Compliance" >>

SectionSet == {Sections[k] : k \in 1..Len(Sections)}

\* assessment_sections[s]["items"]: the priority label of each item, in order
assessment_sections ==
    [s \in SectionSet |->
        CASE s = "1. Fairness & Non-Discrimination" ->
                << "Critical", "Critical", "Critical", "Critical",
                   "High", "High", "High", "Medium" >>
          [] s = "2. Transparency & Explainability" ->
                << "Critical", "Critical", "High", "High",
                   "High", "Critical", "Medium", "High" >>
          [] s = "3. Accountability & Governance" ->
                << "Critical", "High", "High", "Medium",
                   "High", "Medium", "Medium", "Critical" >>
          [] s = "4. Data Quality & Privacy" ->
                << "Critical", "High", "High", "High",
                   "High", "Critical", "High", "High" >>
          [] s = "5. Security & Robustness" ->
                << "High", "High", "High", "Critical",
                   "High", "High", "Medium", "Medium" >>
          [] s = "6. Human Oversight" ->
                << "Critical", "High", "High", "High",
                   "Medium", "Medium", "Medium", "High" >>
          [] s = "7. Consumer Protection" ->
                << "High", "Critical", "High", "High",
                   "High", "Medium", "High", "Critical" >>
          [] s = "8. Regulatory Compliance" ->
                << "Critical", "Critical", "Critical", "High",
                   "High", "High", "Low", "High" >>]

\* the options of a status selectbox, in order; the first is the default
StatusOptions ==
    << "Not Assessed", "Compliant", "Partial", "Non-Compliant", "N/A" >>

StatusSet == {StatusOptions[k] : k \in 1..Len(StatusOptions)}

\* the widget state of an untouched checklist page
DefaultResults ==
    [s \in SectionSet |->
        [i \in 1..Len(assessment_sections[s]) |-> StatusOptions[1]]]

(***************************************************************************)
(* The scoring loop of the checklist.                                      *)
(***************************************************************************)
\* priority_weight without the "Low" entry: Low falls to the default 1
priority_weight_no_low(priority) ==
    CASE priority = "Critical" -> Rat(3)
      [] priority = "High" -> Rat(2)
      [] priority = "Medium" -> Rat(1)
      [] OTHER -> Rat(1)

\* {"Critical": 3, "High": 2, "Medium": 1, "Low": 0.5}.get(priority, 1)
priority_weight(priority) ==
    CASE priority = "Critical" -> Rat(3)
      [] priority = "High" -> Rat(2)
      [] priority = "Medium" -> Rat(1)
      [] priority = "Low" -> <<1, 2>>
      [] OTHER -> Rat(1)

\* one pass of the inner loop: what it adds to compliant_weighted, in quarters
ChecklistCredit(priority, status) ==
    LET w == Quarters(priority_weight(priority))
    IN  IF status = "Compliant" THEN w
        ELSE IF status = "Partial" THEN w \div 2
        ELSE 0

\* ChecklistCounted with "Not Assessed" left out of the total like N/A
ChecklistCountedSkipsNotAssessed(priority, status) ==
    LET w == Quarters(priority_weight(priority))
    IN  IF status \in {"N/A", "Not Assessed"} THEN 0 ELSE w

\* one pass of the inner loop: what it leaves in total_weighted, in quarters
\* (total_weighted += priority_weight, and -= priority_weight for N/A)
ChecklistCounted(priority, status) ==
    LET w == Quarters(priority_weight(priority))
    IN  IF status = "Compliant" THEN w
        ELSE IF status = "Partial" THEN w
        ELSE IF status = "N/A" THEN w - w
        ELSE w

\* compliant_weighted after the first n items
RECURSIVE ChecklistCompliantWeighted(_, _, _)
ChecklistCompliantWeighted(items, statuses, n) ==
    IF n = 0 THEN 0
    ELSE ChecklistCompliantWeighted(items, statuses, n - 1)
            + ChecklistCredit(items[n], statuses[n])

\* total_weighted after the first n items
RECURSIVE ChecklistTotalWeighted(_, _, _)
ChecklistTotalWeighted(items, statuses, n) ==
    IF n = 0 THEN 0
    ELSE ChecklistTotalWeighted(items, statuses, n - 1)
            + ChecklistCounted(items[n], statuses[n])

\* the score of one section: the value stored in section_scores[s]
SectionScore(items, statuses) ==
    LET compliant_weighted ==
            ChecklistCompliantWeighted(items, statuses, Len(items))
        total_weighted == ChecklistTotalWeighted(items, statuses, Len(items))
    IN  IF total_weighted > 0
            THEN RMul(RDiv(Rat(compliant_weighted), Rat(total_weighted)),
                      Rat(100))
            ELSE Rat(100)

\* SectionScores with no entry for a section whose total_weighted is 0
SectionScoresSkipsEmpty(results) ==
    [s \in {k \in SectionSet :
                ChecklistTotalWeighted(assessment_sections[k], results[k],
                                       Len(assessment_sections[k])) > 0} |->
        SectionScore(assessment_sections[s], results[s])]

\* the dict section_scores the checklist loop builds from the selectboxes
SectionScores(results) ==
    [s \in SectionSet |-> SectionScore(assessment_sections[s], results[s])]

(***************************************************************************)
(* Overall scores and classification.                                      *)
(***************************************************************************)
\* sum(f[k] for k in keys) over the values of a dict of rationals
RECURSIVE SumOver(_, _)
SumOver(f, keys) ==
    IF keys = {} THEN Rat(0)
    ELSE LET k == CHOOSE x \in keys : TRUE
         IN  RAdd(f[k], SumOver(f, keys \ {k}))

\* RiskOverallScore as the plain mean, the category weights ignored
RiskOverallUnweighted(rs) ==
    IF DOMAIN rs # {}
        THEN RDiv(SumOver([c \in DOMAIN rs |-> rs[c].score], DOMAIN rs),
                  Rat(Cardinality(DOMAIN rs)))
        ELSE Rat(0)

\* RiskOverallScore without the total_weight > 0 guard
RiskOverallNoGuard(rs) ==
    RDiv(SumOver([c \in DOMAIN rs |-> RMul(rs[c].score, rs[c].weight)],
                 DOMAIN rs),
         SumOver([c \in DOMAIN rs |-> rs[c].weight], DOMAIN rs))

\* RiskOverallScore without the division by total_weight
RiskOverallUnnormalised(rs) ==
    SumOver([c \in DOMAIN rs |-> RMul(rs[c].score, rs[c].weight)], DOMAIN rs)

\* risk tool: total_weighted_score / total_weight if total_weight > 0 else 0
RiskOverallScore(rs) ==
    LET total_weighted_score ==
            SumOver([c \in DOMAIN rs |-> RMul(rs[c].score, rs[c].weight)],
                    DOMAIN rs)
        total_weight ==
            SumOver([c \in DOMAIN rs |-> rs[c].weight], DOMAIN rs)
    IN  IF RGt(total_weight, Rat(0))
            THEN RDiv(total_weighted_score, total_weight)
            ELSE Rat(0)

\* ChecklistOverallScore dividing by len(assessment_sections)
ChecklistOverallBySections(ss) ==
    IF DOMAIN ss # {}
        THEN RDiv(SumOver(ss, DOMAIN ss), Rat(Len(Sections)))
        ELSE Rat(0)

\* checklist: sum(section_scores.values()) / len(section_scores)
\*            if section_scores else 0
ChecklistOverallScore(ss) ==
    IF DOMAIN ss # {}
        THEN RDiv(SumOver(ss, DOMAIN ss), Rat(Cardinality(DOMAIN ss)))
        ELSE Rat(0)

\* risk_level with > in place of >=
risk_level_strict(overall_score) ==
    IF RGt(overall_score, Rat(80)) THEN "Low"
    ELSE IF RGt(overall_score, Rat(60)) THEN "Medium"
    ELSE "High"

\* risk tool, overall: the if/elif/else on overall_score
risk_level(overall_score) ==
    IF RGe(overall_score, Rat(80)) THEN "Low"
    ELSE IF RGe(overall_score, Rat(60)) THEN "Medium"
    ELSE "High"

\* CategoryRiskLevel with the lower threshold at 50
CategoryRiskLevelLenient(score) ==
    IF RGe(score, Rat(80)) THEN "Low"
    ELSE IF RGe(score, Rat(50)) THEN "Medium"
    ELSE "High"

\* risk tool, category breakdown: the "Risk Level" column
CategoryRiskLevel(score) ==
    IF RGe(score, Rat(80)) THEN "Low"
    ELSE IF RGe(score, Rat(60)) THEN "Medium"
    ELSE "High"

\* checklist, overall: the if/elif/else on overall_score
overall_status(overall_score) ==
    IF RGe(overall_score, Rat(80)) THEN "Ready for Production"
    ELSE IF RGe(overall_score, Rat(60)) THEN "Needs Improvement"
    ELSE "Not Ready"

\* checklist, section breakdown: the "Status" column
SectionStatus(score) ==
    IF RGe(score, Rat(80)) THEN "Pass"
    ELSE IF RGe(score, Rat(60)) THEN "Review"
    ELSE "Fail"

\* critical_issues counting the Non-Compliant items of every priority
critical_issues_any_priority(results) ==
    Cardinality({<<s, i>> \in SectionSet \X (1..8) :
        /\ i \in DOMAIN results[s]
        /\ results[s][i] = "Non-Compliant"})

\* critical_issues: Critical items whose status is Non-Compliant
critical_issues(results) ==
    Cardinality({<<s, i>> \in SectionSet \X (1..8) :
        /\ i \in DOMAIN results[s]
        /\ assessment_sections[s][i] = "Critical"
        /\ results[s][i] = "Non-Compliant"})

(***************************************************************************)
(* State.                                                                  *)
(***************************************************************************)
VARIABLES
    current_page,           \* pages[selected_page]
    responses,              \* risk tool: the radios, responses[category][i]
    risk_scores,            \* risk tool: the dict the questionnaire loop built
    use_case_type,          \* risk tool: "AI Application Type" selectbox
    jurisdictions,          \* risk tool: "Operating Jurisdictions" multiselect
    assessment_results,     \* checklist: the status selectboxes
    section_scores,         \* checklist: the dict the checklist loop built
    system_name,            \* checklist: "AI System Name" text input
    assessor_name,          \* checklist: "Assessor" text input
    ai_officer,             \* governance: "Chief AI/Data Officer" text input
    ai_risk_owner,          \* governance: "AI Risk Owner" text input
    policy_status,          \* governance: the status selectbox of each policy
    report_format,          \* export: "Report Format:" selectbox
    q1,                     \* scenario: radio of decision point 1
    q2,                     \* scenario: multiselect of decision point 2
    q3,                     \* scenario: multiselect of decision point 3
    q4,                     \* scenario: radio of decision point 4
    risk_assessment,        \* st.session_state.risk_assessment
    governance_plan,        \* st.session_state.governance_plan
    completed_assessments,  \* st.session_state.completed_assessments
    shown,                  \* the results the last script run displayed
    exception,              \* the exception the last script run raised
    clock                   \* datetime.now(), as a logical clock

vars ==
    << current_page, responses, risk_scores, use_case_type, jurisdictions,
       assessment_results, section_scores, system_name, assessor_name,
       ai_officer, ai_risk_owner, policy_status, report_format,
       q1, q2, q3, q4,
       risk_assessment, governance_plan, completed_assessments, shown,
       exception, clock >>

\* the widgets of the governance page, of the export page and of the
\* interactive scenario
other_widgets ==
    << ai_officer, ai_risk_owner, policy_status, report_format,
       q1, q2, q3, q4 >>

\* the empty dict {} and the dict no script run has built
EmptyDict == [k \in {} |-> 0]

\* the values of pages
Pages ==
    { "home", "regulations", "risk_tool", "governance", "assessment",
      "cases", "resources", "export" }

\* the first option of the "AI Application Type" selectbox
DefaultUseCase == "Credit Scoring/Underwriting"

\* core_policies: the names of the policies, in declaration order
core_policies ==
    << "AI Ethics Policy", "AI Risk Management Policy",
       "Model Risk Management Policy", "Data Governance Policy",
       "Third-Party AI Policy", "AI Transparency Policy",
       "AI Fairness Policy", "AI Incident Management Policy" >>

PolicySet == {core_policies[k] : k \in 1..Len(core_policies)}

\* the options of a policy selectbox, in order; the first is the default
PolicyOptions ==
    << "Not Started", "In Development", "Under Review", "Approved", "N/A" >>

DefaultPolicyStatus == [p \in PolicySet |-> PolicyOptions[1]]

\* the options of the "Report Format:" selectbox; the first is the default
ReportFormats == << "DOCX (Microsoft Word)", "JSON (Machine-readable)" >>

\* the options of the radio of decision point 1 of the interactive
\* scenario, each text as its words; the first is the default
Q1Options ==
    << << "Approve", "-", "the", "accuracy", "improvement", "justifies",
          "the", "approach" >>,
       << "Conditional", "approval", "-", "needs", "additional",
          "safeguards" >>,
       << "Request", "more", "information", "before", "deciding" >>,
       << "Decline", "-", "too", "many", "risks", "outweigh", "benefits" >> >>

\* the options of the multiselect of decision point 2
Q2Options ==
    { "Potential for discrimination based on protected characteristics",
      "Privacy and consent issues",
      "Difficulty in explaining decisions to consumers",
      "Regulatory compliance uncertainty",
      "Data quality and reliability",
      "Reputational risk",
      "Third-party data provider risks" }

\* the options of the multiselect of decision point 3
Q3Options ==
    { "Comprehensive disparate impact testing",
      "Legal review of data collection practices",
      "Consumer disclosure and consent mechanisms",
      "Explainability solution for adverse actions",
      "Ongoing fairness monitoring",
      "Human review for edge cases",
      "Regulatory consultation",
      "External audit of the approach" }

\* the options of the radio of decision point 4, each text as its words;
\* the first is the default
Q4Options ==
    << << "ECOA/Fair", "Credit", "Reporting", "Act", "(US)" >>,
       << "EU", "AI", "Act", "and", "GDPR" >>,
       << "UK", "FCA", "Consumer", "Duty" >>,
       << "All", "of", "the", "above" >>,
       << "None", "-", "this", "is", "purely", "a", "business",
          "decision" >> >>

\* d.get(k, default)
Get(d, k, default) == IF k \in DOMAIN d THEN d[k] ELSE default

\* a script run that raises leaves the traceback on the page
RunException(rs, ss) ==
    IF \/ \E c \in DOMAIN rs : IsError(rs[c].score)
       \/ \E s \in DOMAIN ss : IsError(ss[s])
        THEN "ZeroDivisionError"
        ELSE "none"

\* the session variables as the first script run of a session sets them
SessionInit ==
    /\ risk_assessment = EmptyDict
    /\ governance_plan = EmptyDict
    /\ completed_assessments = << >>

\* the widgets of the pages at their defaults
WidgetDefaults ==
    /\ responses = DefaultResponses
    /\ use_case_type = DefaultUseCase
    /\ jurisdictions = << >>
    /\ assessment_results = DefaultResults
    /\ system_name = ""
    /\ assessor_name = ""
    /\ ai_officer = ""
    /\ ai_risk_owner = ""
    /\ policy_status = DefaultPolicyStatus
    /\ report_format = ReportFormats[1]
    /\ q1 = Q1Options[1]
    /\ q2 = {}
    /\ q3 = {}
    /\ q4 = Q4Options[1]

\* a new session: the home page, nothing saved
Init ==
    /\ current_page = "home"
    /\ WidgetDefaults
    /\ SessionInit
    /\ risk_scores = EmptyDict
    /\ section_scores = EmptyDict
    /\ shown = EmptyDict
    /\ exception = "none"
    /\ clock = 0

(***************************************************************************)
(* Handlers.                                                               *)
(***************************************************************************)
\* low_score_categories with <= in place of <
low_score_categories_inclusive(rs) ==
    {c \in DOMAIN rs : RLe(rs[c].score, Rat(70))}

\* low_score_categories: the categories scoring below 70
low_score_categories(rs) ==
    {c \in DOMAIN rs : RLt(rs[c].score, Rat(70))}

\* mitigation_recommendations: five recommendations per category, each
\* text named by its category and its place in the list
mitigation_recommendations ==
    [c \in CategorySet |-> [i \in 1..5 |-> <<c, i>>]]

\* Recommendations with a category that has none defined skipped
RecommendationsSkipUndefined(rs) ==
    [c \in low_score_categories(rs) \cap DOMAIN mitigation_recommendations |->
        mitigation_recommendations[c]]

\* the expanders of the recommendations:
\* mitigation_recommendations.get(category, []) for each low-score category
Recommendations(rs) ==
    [c \in low_score_categories(rs) |->
        Get(mitigation_recommendations, c, << >>)]

\* "Generate Risk Analysis": the branch of the button on the risk page
GenerateRiskAnalysis ==
    /\ current_page = "risk_tool"
    /\ clock < MaxClock
    /\ RunException(risk_scores, EmptyDict) = "none"
    /\ LET overall_score == RiskOverallScore(risk_scores)
       IN  IF IsError(overall_score)
           THEN /\ exception' = "ZeroDivisionError"
                /\ shown' = EmptyDict
                /\ UNCHANGED risk_assessment
           ELSE /\ exception' = "none"
                /\ shown' =
                      [page |-> "risk_tool",
                       overall_score |-> overall_score,
                       risk_level |-> risk_level(overall_score),
                       category_levels |->
                          [c \in DOMAIN risk_scores |->
                              CategoryRiskLevel(risk_scores[c].score)],
                       recommendations |-> Recommendations(risk_scores),
                       good_risk_posture |->
                          low_score_categories(risk_scores) = {}]
                /\ risk_assessment' =
                      [timestamp |-> clock,
                       use_case |-> use_case_type,
                       jurisdictions |-> jurisdictions,
                       overall_score |-> overall_score,
                       risk_level |-> risk_level(overall_score),
                       category_scores |->
                          [c \in DOMAIN risk_scores |-> risk_scores[c].score],
                       responses |-> responses]
    /\ clock' = clock + 1
    /\ UNCHANGED << current_page, responses, risk_scores, use_case_type,
                    jurisdictions, assessment_results, section_scores,
                    system_name, assessor_name, governance_plan,
                    completed_assessments, other_widgets >>

\* the items of the checklist in the order the loops visit them: the
\* sections in declaration order, the items of each in order
RECURSIVE ChecklistItems(_)
ChecklistItems(n) ==
    IF n = 0 THEN << >>
    ELSE ChecklistItems(n - 1) \o
            [i \in 1..Len(assessment_sections[Sections[n]]) |->
                <<Sections[n], i>>]

\* attention_items: a row for each item whose status is Non-Compliant or
\* Partial, in the order visited
attention_items(results) ==
    LET flagged == SelectSeq(ChecklistItems(Len(Sections)),
                       LAMBDA it : results[it[1]][it[2]]
                                      \in {"Non-Compliant", "Partial"})
    IN  [k \in 1..Len(flagged) |->
            [ID |-> flagged[k],
             Priority |-> assessment_sections[flagged[k][1]][flagged[k][2]],
             Status |-> results[flagged[k][1]][flagged[k][2]]]]

\* priority_rank with the Priority column sorted as text, without the key
priority_rank_alphabetical(priority) ==
    CASE priority = "Critical" -> 0
      [] priority = "High" -> 1
      [] priority = "Low" -> 2
      [] priority = "Medium" -> 3
      [] OTHER -> 4

\* the sort key: x.map({"Critical": 0, "High": 1, "Medium": 2, "Low": 3});
\* a label the map does not hold becomes NaN, which sorts last
priority_rank(priority) ==
    CASE priority = "Critical" -> 0
      [] priority = "High" -> 1
      [] priority = "Medium" -> 2
      [] priority = "Low" -> 3
      [] OTHER -> 4

\* attention_df.sort_values(by="Priority", key=...): the rows ascending by
\* the key, keys[k] being the key of rows[k].  Rows of equal key are kept
\* in the order they had; the program relies on no particular order among
\* them.
sort_values(rows, keys) ==
    LET index == [k \in 1..Len(rows) |-> k]
        block(r) == SelectSeq(index, LAMBDA k : keys[k] = r)
        order == block(0) \o block(1) \o block(2) \o block(3) \o block(4)
    IN  [k \in 1..Len(order) |-> rows[order[k]]]

\* AppendAssessment assigning a new list that holds the new record only
AppendAssessmentOverwrites(history, record) == <<record>>

\* st.session_state.completed_assessments.append(record)
AppendAssessment(history, record) == Append(history, record)

\* "Generate Assessment Report": the branch of the button on the checklist
GenerateAssessmentReport ==
    /\ current_page = "assessment"
    /\ clock < MaxClock
    /\ Len(completed_assessments) < MaxHistory
    /\ RunException(EmptyDict, section_scores) = "none"
    /\ LET overall_score == ChecklistOverallScore(section_scores)
       IN  IF IsError(overall_score)
           THEN /\ exception' = "ZeroDivisionError"
                /\ shown' = EmptyDict
                /\ UNCHANGED completed_assessments
           ELSE /\ exception' = "none"
                /\ shown' =
                      [page |-> "assessment",
                       overall_score |-> overall_score,
                       overall_status |-> overall_status(overall_score),
                       critical_issues |-> critical_issues(assessment_results),
                       attention_items |->
                          LET rows == attention_items(assessment_results)
                          IN  sort_values(rows,
                                  [k \in 1..Len(rows) |->
                                      priority_rank(rows[k].Priority)]),
                       all_compliant |->
                          attention_items(assessment_results) = << >>,
                       section_status |->
                          [s \in DOMAIN section_scores |->
                              SectionStatus(section_scores[s])]]
                /\ completed_assessments' =
                      AppendAssessment(completed_assessments,
                          [timestamp |-> clock,
                           system_name |-> system_name,
                           assessor |-> assessor_name,
                           overall_score |-> overall_score,
                           section_scores |-> section_scores,
                           results |-> assessment_results])
    /\ clock' = clock + 1
    /\ UNCHANGED << current_page, responses, risk_scores, use_case_type,
                    jurisdictions, assessment_results, section_scores,
                    system_name, assessor_name, risk_assessment,
                    governance_plan, other_widgets >>

\* GovernancePlan keeping a plan that is already saved: first write wins
GovernancePlanKeepsFirst(officer, risk_owner, policies) ==
    IF governance_plan # EmptyDict THEN governance_plan
    ELSE [structure |->
             [ai_officer |-> officer, ai_risk_owner |-> risk_owner],
          policies |-> policies]

\* "Generate Governance Framework": the branch of the button on the
\* governance page.  governance_plan holds one entry per tab; the model keeps
\* the entries the export page reads back ("structure" with the two roles it
\* prints, and "policies").
GovernancePlan(officer, risk_owner, policies) ==
    [structure |-> [ai_officer |-> officer, ai_risk_owner |-> risk_owner],
     policies |-> policies]

GenerateGovernanceFramework ==
    /\ current_page = "governance"
    /\ governance_plan' =
          GovernancePlan(ai_officer, ai_risk_owner, policy_status)
    /\ shown' =
          [page |-> "governance",
           policies_defined |->
              Cardinality({p \in DOMAIN policy_status :
                  policy_status[p] \notin {"Not Started", "N/A"}})]
    /\ exception' = "none"
    /\ UNCHANGED << current_page, responses, risk_scores, use_case_type,
                    jurisdictions, assessment_results, section_scores,
                    system_name, assessor_name, risk_assessment,
                    completed_assessments, clock, other_widgets >>

(***************************************************************************)
(* The comprehensive report of the export page.                            *)
(***************************************************************************)
\* the keys of the dict d, in the order of the sequence order (the insertion
\* order of the dict)
KeysInOrder(order, d) == SelectSeq(order, LAMBDA k : k \in DOMAIN d)

\* f"{x:.1f}": x in tenths, rounded to the nearest; a value halfway between
\* two tenths is printed as either, the float nearest to x decides which
FormatOneDecimal(x) ==
    LET q == (10 * x[1]) \div x[2]
        r == (10 * x[1]) % x[2]
    IN  IF 2 * r < x[2] THEN {q}
        ELSE IF 2 * r > x[2] THEN {q + 1}
        ELSE {q, q + 1}

\* datetime.now().strftime(format) and datetime.now().isoformat()
strftime(format, now) == <<format, now>>

\* json.dumps of a dict: its members in insertion order, each a key and
\* the value it holds
JsonDumps(keys, d) == [k \in 1..Len(keys) |-> <<keys[k], d[keys[k]]>>]

\* the elements python-docx adds to the document
Heading(text, level) == [style |-> "Heading", level |-> level, text |-> text]

Paragraph(text) == [style |-> "Normal", text |-> text]

ListBullet(text) == [style |-> "List Bullet", text |-> text]

TableGrid(rows) == [style |-> "Table Grid", rows |-> rows]

\* report_data of the JSON branch
ReportKeys ==
    << "report_metadata", "risk_assessment", "governance_framework",
       "ethical_assessments" >>

\* report_data with an empty section replaced by None
report_data_none_when_empty(ra, gp, ca, now) ==
    [k \in {ReportKeys[i] : i \in 1..Len(ReportKeys)} |->
        CASE k = "report_metadata" ->
                [generated_at |-> now, tool_version |-> "1.0.0"]
          [] k = "risk_assessment" ->
                IF ra = EmptyDict THEN [none |-> TRUE] ELSE ra
          [] k = "governance_framework" ->
                IF gp = EmptyDict THEN [none |-> TRUE] ELSE gp
          [] k = "ethical_assessments" ->
                IF ca = << >> THEN [none |-> TRUE] ELSE ca]

report_data(ra, gp, ca, now) ==
    [k \in {ReportKeys[i] : i \in 1..Len(ReportKeys)} |->
        CASE k = "report_metadata" ->
                [generated_at |-> now, tool_version |-> "1.0.0"]
          [] k = "risk_assessment" -> ra
          [] k = "governance_framework" -> gp
          [] k = "ethical_assessments" -> ca]

\* DOCX: title and executive summary
DocFrontMatter(now) ==
    << Heading("FinTech AI Ethics & Governance Report", 0),
       Paragraph(<<"Generated: ", strftime("%B %d, %Y at %H:%M", now)>>),
       Paragraph(<<"Tool Version: 1.0.0">>),
       Paragraph(<<"__________________________________________________">>),
       Heading("1. Executive Summary", 1),
       Paragraph(<<"This report summarizes the AI ethics and governance assessment">>) >>

\* DocRiskSection without the else branch: nothing under the heading when
\* no risk assessment is saved
DocRiskSectionNoMarker(ra) ==
    <<Heading("2. Risk Assessment", 1)>> \o
    IF ra # EmptyDict
    THEN LET scores == Get(ra, "category_scores", EmptyDict)
             cats == KeysInOrder(Categories, scores)
         IN  << Paragraph(<< "Use Case: ", Get(ra, "use_case", "N/A"),
                            "Risk Level: ", Get(ra, "risk_level", "Unknown"),
                            "Overall Score: ",
                            FormatOneDecimal(Get(ra, "overall_score", Rat(0))),
                            "/100" >>),
                Heading("Category Scores:", 2) >> \o
             [k \in 1..Len(cats) |->
                ListBullet(<<cats[k], ": ",
                             FormatOneDecimal(scores[cats[k]]), "%">>)]
    ELSE << >>

\* DOCX: 2. Risk Assessment Section
DocRiskSection(ra) ==
    <<Heading("2. Risk Assessment", 1)>> \o
    IF ra # EmptyDict
    THEN LET scores == Get(ra, "category_scores", EmptyDict)
             cats == KeysInOrder(Categories, scores)
         IN  << Paragraph(<< "Use Case: ", Get(ra, "use_case", "N/A"),
                            "Risk Level: ", Get(ra, "risk_level", "Unknown"),
                            "Overall Score: ",
                            FormatOneDecimal(Get(ra, "overall_score", Rat(0))),
                            "/100" >>),
                Heading("Category Scores:", 2) >> \o
             [k \in 1..Len(cats) |->
                ListBullet(<<cats[k], ": ",
                             FormatOneDecimal(scores[cats[k]]), "%">>)]
    ELSE <<Paragraph(<<"Risk assessment not yet completed.">>)>>

\* DOCX: 3. Governance Framework Section
DocGovernanceSection(gp) ==
    <<Heading("3. Governance Framework", 1)>> \o
    IF gp # EmptyDict
    THEN LET structure == Get(gp, "structure", EmptyDict)
             policies == Get(gp, "policies", EmptyDict)
             names == KeysInOrder(core_policies, policies)
         IN  <<Heading("Key Roles", 2)>> \o
             (IF structure # EmptyDict
              THEN << Paragraph(<< "AI Officer: ",
                          Get(structure, "ai_officer", "Not defined") >>),
                      Paragraph(<< "Risk Owner: ",
                          Get(structure, "ai_risk_owner", "Not defined") >>) >>
              ELSE << >>) \o
             <<Heading("Policy Status", 2)>> \o
             [k \in 1..Len(names) |->
                ListBullet(<<names[k], ": ", policies[names[k]]>>)]
    ELSE <<Paragraph(<<"Governance framework not yet generated.">>)>>

\* DOCX: one pass of the loop over completed_assessments (i counts from 1)
DocAssessment(i, assessment) ==
    LET scores == Get(assessment, "section_scores", EmptyDict)
        secs == KeysInOrder(Sections, scores)
    IN  << Heading(<<"Assessment ", i, ": ",
                     Get(assessment, "system_name", "None")>>, 2),
           Paragraph(<<"Assessor: ", Get(assessment, "assessor", "None")>>),
           Paragraph(<<"Date: ", Get(assessment, "timestamp", "None")>>),
           Paragraph(<<"Score: ",
                       FormatOneDecimal(assessment.overall_score), "%">>),
           TableGrid(<< <<"Section", "Compliance Score">> >> \o
               [k \in 1..Len(secs) |->
                   <<secs[k], FormatOneDecimal(scores[secs[k]]), "%">>]),
           Paragraph(<< >>) >>

\* DOCX: the elements the loop has added after the first n assessments
RECURSIVE DocAssessments(_, _)
DocAssessments(ca, n) ==
    IF n = 0 THEN << >>
    ELSE DocAssessments(ca, n - 1) \o DocAssessment(n, ca[n])

\* DocEthicalSection keeping, per system name, the latest assessment only
DocEthicalSectionLatestPerSystem(ca) ==
    LET latest == SelectSeq(ca, LAMBDA a :
                      ~\E j \in 1..Len(ca) :
                          /\ ca[j].system_name = a.system_name
                          /\ ca[j].timestamp > a.timestamp)
    IN  <<Heading("4. Ethical Assessments", 1)>> \o
        IF ca # << >>
        THEN DocAssessments(latest, Len(latest))
        ELSE <<Paragraph(<<"No ethical assessments completed.">>)>>

\* DOCX: 4. Ethical Assessments Section
DocEthicalSection(ca) ==
    <<Heading("4. Ethical Assessments", 1)>> \o
    IF ca # << >>
    THEN DocAssessments(ca, Len(ca))
    ELSE <<Paragraph(<<"No ethical assessments completed.">>)>>

\* DOCX: the document saved to the memory buffer
Docx(ra, gp, ca, now) ==
    DocFrontMatter(now) \o DocRiskSection(ra) \o DocGovernanceSection(gp)
        \o DocEthicalSection(ca)

\* GenerateComprehensiveReport handing the session values over to the
\* report: once exported they are reset to their initial values
GenerateComprehensiveReportConsumes ==
    /\ current_page = "export"
    /\ IF report_format = "JSON (Machine-readable)"
       THEN /\ shown' =
                  [page |-> "export",
                   label |-> "Download Comprehensive Report (JSON)",
                   mime |-> "application/json",
                   data |-> JsonDumps(ReportKeys,
                               report_data(risk_assessment, governance_plan,
                                           completed_assessments, clock)),
                   success |-> "Report generated successfully!"]
            /\ exception' = "none"
       ELSE \/ /\ shown' =
                     [page |-> "export",
                      label |-> "Download Comprehensive Report (DOCX)",
                      mime |-> "application/vnd.openxmlformats-officedocument.wordprocessingml.document",
                      data |-> Docx(risk_assessment, governance_plan,
                                    completed_assessments, clock),
                      success |-> "Report generated successfully!"]
               /\ exception' = "none"
            \/ /\ shown' = EmptyDict
               /\ exception' = "Exception"
    /\ risk_assessment' = EmptyDict
    /\ governance_plan' = EmptyDict
    /\ completed_assessments' = << >>
    /\ UNCHANGED << current_page, responses, risk_scores, use_case_type,
                    jurisdictions, assessment_results, section_scores,
                    system_name, assessor_name, clock, other_widgets >>

\* "Generate Comprehensive Report": the branch of the button on the export
\* page.  Building or saving the document is a call into python-docx that
\* can raise; nothing in the branch catches it.
GenerateComprehensiveReport ==
    /\ current_page = "export"
    /\ IF report_format = "JSON (Machine-readable)"
       THEN /\ shown' =
                  [page |-> "export",
                   label |-> "Download Comprehensive Report (JSON)",
                   mime |-> "application/json",
                   data |-> JsonDumps(ReportKeys,
                               report_data(risk_assessment, governance_plan,
                                           completed_assessments, clock)),
                   success |-> "Report generated successfully!"]
            /\ exception' = "none"
       ELSE \/ /\ shown' =
                     [page |-> "export",
                      label |-> "Download Comprehensive Report (DOCX)",
                      mime |-> "application/vnd.openxmlformats-officedocument.wordprocessingml.document",
                      data |-> Docx(risk_assessment, governance_plan,
                                    completed_assessments, clock),
                      success |-> "Report generated successfully!"]
               /\ exception' = "none"
            \/ /\ shown' = EmptyDict
               /\ exception' = "Exception"
    /\ UNCHANGED << current_page, responses, risk_scores, use_case_type,
                    jurisdictions, assessment_results, section_scores,
                    system_name, assessor_name, risk_assessment,
                    governance_plan, completed_assessments, clock,
                    other_widgets >>

\* the keys of the saved records, in insertion order
RiskAssessmentKeys ==
    << "timestamp", "use_case", "jurisdictions", "overall_score",
       "risk_level", "category_scores", "responses" >>

GovernancePlanKeys == << "structure", "policies" >>

AssessmentKeys ==
    << "timestamp", "system_name", "assessor", "overall_score",
       "section_scores", "results" >>

\* what an individual export of the export page offers for download
IndividualExport(label, keys, d) ==
    [page |-> "export",
     label |-> label,
     mime |-> "application/json",
     data |-> JsonDumps(keys, d)]

\* "Export Risk Assessment (JSON)": rendered when a risk assessment is saved
ExportRiskAssessment ==
    /\ current_page = "export"
    /\ risk_assessment # EmptyDict
    /\ shown' = IndividualExport("Download Risk Assessment",
                    RiskAssessmentKeys, risk_assessment)
    /\ exception' = "none"
    /\ UNCHANGED << current_page, responses, risk_scores, use_case_type,
                    jurisdictions, assessment_results, section_scores,
                    system_name, assessor_name, risk_assessment,
                    governance_plan, completed_assessments, clock,
                    other_widgets >>

\* "Export Governance Framework (JSON)": rendered when a plan is saved
ExportGovernanceFramework ==
    /\ current_page = "export"
    /\ governance_plan # EmptyDict
    /\ shown' = IndividualExport("Download Governance Framework",
                    GovernancePlanKeys, governance_plan)
    /\ exception' = "none"
    /\ UNCHANGED << current_page, responses, risk_scores, use_case_type,
                    jurisdictions, assessment_results, section_scores,
                    system_name, assessor_name, risk_assessment,
                    governance_plan, completed_assessments, clock,
                    other_widgets >>

\* "Download Assessment i+1": one button per record of the history
\* (i counts from 1 here)
DownloadAssessment(i) ==
    /\ current_page = "export"
    /\ i \in 1..Len(completed_assessments)
    /\ shown' = IndividualExport(<<"Download Assessment ", i>>,
                    AssessmentKeys, completed_assessments[i])
    /\ exception' = "none"
    /\ UNCHANGED << current_page, responses, risk_scores, use_case_type,
                    jurisdictions, assessment_results, section_scores,
                    system_name, assessor_name, risk_assessment,
                    governance_plan, completed_assessments, clock,
                    other_widgets >>

(***************************************************************************)
(* The interactive scenario of the case studies page.                      *)
(***************************************************************************)
\* needle in text, for texts taken as sequences of words: every needle of
\* the program is made of whole words of the options
Contains(needle, text) ==
    \E k \in 0..(Len(text) - Len(needle)) :
        SubSeq(text, k + 1, k + Len(needle)) = needle

key_concerns ==
    { "Potential for discrimination based on protected characteristics",
      "Privacy and consent issues",
      "Difficulty in explaining decisions to consumers",
      "Regulatory compliance uncertainty" }

essential_safeguards ==
    { "Comprehensive disparate impact testing",
      "Explainability solution for adverse actions",
      "Ongoing fairness monitoring" }

\* len([c for c in q2 if c in key_concerns])
matched_concerns(concerns) ==
    Cardinality({c \in concerns : c \in key_concerns})

\* len([s for s in q3 if s in essential_safeguards])
matched_safeguards(safeguards) ==
    Cardinality({c \in safeguards : c \in essential_safeguards})

\* score once the four decision points are counted
DecisionScore(reaction, concerns, safeguards, frameworks) ==
    (IF \/ Contains(<<"Conditional", "approval">>, reaction)
        \/ Contains(<<"Request", "more", "information">>, reaction)
        THEN 25
     ELSE IF Contains(<<"Decline">>, reaction) THEN 20
     ELSE 0)
    + matched_concerns(concerns) * 10
    + matched_safeguards(safeguards) * 10
    + (IF frameworks = <<"All", "of", "the", "above">> THEN 15 ELSE 0)

\* ResultCard with > in place of >=
ResultCardStrict(total) ==
    IF total > 70 THEN "Excellent Risk Assessment"
    ELSE IF total > 50 THEN "Good Foundation, Room for Improvement"
    ELSE "Significant Risk Exposure"

\* the card displayed for the score: the if/elif/else on score
ResultCard(total) ==
    IF total >= 70 THEN "Excellent Risk Assessment"
    ELSE IF total >= 50 THEN "Good Foundation, Room for Improvement"
    ELSE "Significant Risk Exposure"

\* "Submit Decision": the branch of the button of the scenario
SubmitDecision ==
    /\ current_page = "cases"
    /\ shown' =
          [page |-> "cases",
           score |-> DecisionScore(q1, q2, q3, q4),
           card |-> ResultCard(DecisionScore(q1, q2, q3, q4))]
    /\ exception' = "none"
    /\ UNCHANGED << current_page, responses, risk_scores, use_case_type,
                    jurisdictions, assessment_results, section_scores,
                    system_name, assessor_name, risk_assessment,
                    governance_plan, completed_assessments, clock,
                    other_widgets >>

(***************************************************************************)
(* Widget interactions.  Each one reruns the script: the loop of the page  *)
(* rebuilds its dict of scores, the buttons read False and no results are  *)
(* displayed.  Streamlit drops the state of the widgets of a page that is  *)
(* not rendered, so a page comes back with its defaults.                   *)
(***************************************************************************)
\* values picked in the metadata widgets of the risk page:
\* <<use_case_type, jurisdictions>>
UseCaseSamples ==
    { <<DefaultUseCase, << >> >>, <<"Fraud Detection", <<"European Union">> >> }

\* values typed in the text inputs of the checklist page:
\* <<system_name, assessor_name>>
SystemSamples ==
    { <<"", "">>, <<"Credit Decision Engine v2.0", "A. Assessor">> }

\* the categories (sections) whose answers the session edits
EditableCategories ==
    {Categories[k] : k \in 1..(IF MaxEditable <= Len(Categories)
                                THEN MaxEditable ELSE Len(Categories))}

EditableSections ==
    {Sections[k] : k \in 1..(IF MaxEditable <= Len(Sections)
                              THEN MaxEditable ELSE Len(Sections))}

\* the questions (items) of a category (section) the session edits
EditableItems(n) == 1..(IF MaxEditable <= n THEN MaxEditable ELSE n)

\* the number of answers of a sheet that differ from the default option
OffDefault(sheet, default) ==
    Cardinality({<<k, i>> \in UNION {{k} \X DOMAIN sheet[k] : k \in DOMAIN sheet} :
                    sheet[k][i] # default})

\* Navigate with the initialisation of the session state run unguarded: a
\* change of page starts the session over
NavigateResetsSession(p) ==
    /\ p # current_page
    /\ current_page' = p
    /\ responses' = DefaultResponses
    /\ use_case_type' = DefaultUseCase
    /\ jurisdictions' = << >>
    /\ assessment_results' = DefaultResults
    /\ system_name' = ""
    /\ assessor_name' = ""
    /\ ai_officer' = ""
    /\ ai_risk_owner' = ""
    /\ policy_status' = DefaultPolicyStatus
    /\ report_format' = ReportFormats[1]
    /\ q1' = Q1Options[1]
    /\ q2' = {}
    /\ q3' = {}
    /\ q4' = Q4Options[1]
    /\ risk_scores' =
          IF p = "risk_tool" THEN RiskScores(DefaultResponses) ELSE EmptyDict
    /\ section_scores' =
          IF p = "assessment" THEN SectionScores(DefaultResults) ELSE EmptyDict
    /\ shown' = EmptyDict
    /\ exception' = RunException(risk_scores', section_scores')
    /\ risk_assessment' = EmptyDict
    /\ governance_plan' = EmptyDict
    /\ completed_assessments' = << >>
    /\ UNCHANGED clock

\* the sidebar radio selects another page
Navigate(p) ==
    /\ p # current_page
    /\ current_page' = p
    /\ responses' = DefaultResponses
    /\ use_case_type' = DefaultUseCase
    /\ jurisdictions' = << >>
    /\ assessment_results' = DefaultResults
    /\ system_name' = ""
    /\ assessor_name' = ""
    /\ ai_officer' = ""
    /\ ai_risk_owner' = ""
    /\ policy_status' = DefaultPolicyStatus
    /\ report_format' = ReportFormats[1]
    /\ q1' = Q1Options[1]
    /\ q2' = {}
    /\ q3' = {}
    /\ q4' = Q4Options[1]
    /\ risk_scores' =
          IF p = "risk_tool" THEN RiskScores(DefaultResponses) ELSE EmptyDict
    /\ section_scores' =
          IF p = "assessment" THEN SectionScores(DefaultResults) ELSE EmptyDict
    /\ shown' = EmptyDict
    /\ exception' = RunException(risk_scores', section_scores')
    /\ UNCHANGED << risk_assessment, governance_plan, completed_assessments,
                    clock >>

\* SetResponse saving the analysis of the new answers on every change
SetResponseSaves(c, i, r) ==
    /\ current_page = "risk_tool"
    /\ r # responses[c][i]
    /\ LET new == [responses EXCEPT ![c][i] = r]
       IN  /\ OffDefault(new, RadioOptions[1]) <= MaxEdits
           /\ responses' = new
           /\ risk_scores' = RiskScores(new)
           /\ risk_assessment' =
                 [timestamp |-> clock,
                  use_case |-> use_case_type,
                  jurisdictions |-> jurisdictions,
                  overall_score |-> RiskOverallScore(RiskScores(new)),
                  risk_level |->
                     risk_level(RiskOverallScore(RiskScores(new))),
                  category_scores |->
                     [k \in CategorySet |-> RiskScores(new)[k].score],
                  responses |-> new]
    /\ shown' = EmptyDict
    /\ exception' = RunException(risk_scores', EmptyDict)
    /\ UNCHANGED << current_page, use_case_type, jurisdictions,
                    assessment_results, section_scores, system_name,
                    assessor_name, governance_plan,
                    completed_assessments, clock, other_widgets >>

\* a radio of the questionnaire is set
SetResponse(c, i, r) ==
    /\ current_page = "risk_tool"
    /\ r # responses[c][i]
    /\ LET new == [responses EXCEPT ![c][i] = r]
       IN  /\ OffDefault(new, RadioOptions[1]) <= MaxEdits
           /\ responses' = new
           /\ risk_scores' = RiskScores(new)
    /\ shown' = EmptyDict
    /\ exception' = RunException(risk_scores', EmptyDict)
    /\ UNCHANGED << current_page, use_case_type, jurisdictions,
                    assessment_results, section_scores, system_name,
                    assessor_name, risk_assessment, governance_plan,
                    completed_assessments, clock, other_widgets >>

\* the use case or the jurisdictions of the risk page are set
SetUseCase(u, j) ==
    /\ current_page = "risk_tool"
    /\ <<u, j>> # <<use_case_type, jurisdictions>>
    /\ use_case_type' = u
    /\ jurisdictions' = j
    /\ shown' = EmptyDict
    /\ exception' = RunException(risk_scores, EmptyDict)
    /\ UNCHANGED << current_page, responses, risk_scores, assessment_results,
                    section_scores, system_name, assessor_name,
                    risk_assessment, governance_plan, completed_assessments,
                    clock, other_widgets >>

\* a status selectbox of the checklist is set
SetStatus(sec, i, st) ==
    /\ current_page = "assessment"
    /\ st # assessment_results[sec][i]
    /\ LET new == [assessment_results EXCEPT ![sec][i] = st]
       IN  /\ OffDefault(new, StatusOptions[1]) <= MaxEdits
           /\ assessment_results' = new
           /\ section_scores' = SectionScores(new)
    /\ shown' = EmptyDict
    /\ exception' = RunException(EmptyDict, section_scores')
    /\ UNCHANGED << current_page, responses, risk_scores, use_case_type,
                    jurisdictions, system_name, assessor_name,
                    risk_assessment, governance_plan, completed_assessments,
                    clock, other_widgets >>

\* the system name or the assessor of the checklist page is typed
SetSystemInformation(n, a) ==
    /\ current_page = "assessment"
    /\ <<n, a>> # <<system_name, assessor_name>>
    /\ system_name' = n
    /\ assessor_name' = a
    /\ shown' = EmptyDict
    /\ exception' = RunException(EmptyDict, section_scores)
    /\ UNCHANGED << current_page, responses, risk_scores, use_case_type,
                    jurisdictions, assessment_results, section_scores,
                    risk_assessment, governance_plan, completed_assessments,
                    clock, other_widgets >>

\* values typed and picked in the widgets of the governance page:
\* <<ai_officer, ai_risk_owner, policy_status>>
GovernanceSamples ==
    { <<"", "", DefaultPolicyStatus>>,
      <<"Chief Data Officer", "Chief Risk Officer",
        [DefaultPolicyStatus EXCEPT ![core_policies[1]] = "Approved"]>> }

\* the roles or a policy status of the governance page are set
SetGovernance(officer, risk_owner, policies) ==
    /\ current_page = "governance"
    /\ <<officer, risk_owner, policies>>
          # <<ai_officer, ai_risk_owner, policy_status>>
    /\ ai_officer' = officer
    /\ ai_risk_owner' = risk_owner
    /\ policy_status' = policies
    /\ shown' = EmptyDict
    /\ exception' = "none"
    /\ UNCHANGED << current_page, responses, risk_scores, use_case_type,
                    jurisdictions, assessment_results, section_scores,
                    system_name, assessor_name, report_format,
                    q1, q2, q3, q4,
                    risk_assessment, governance_plan, completed_assessments,
                    clock >>

\* the report format of the export page is picked
SetReportFormat(f) ==
    /\ current_page = "export"
    /\ f # report_format
    /\ report_format' = f
    /\ shown' = EmptyDict
    /\ exception' = "none"
    /\ UNCHANGED << current_page, responses, risk_scores, use_case_type,
                    jurisdictions, assessment_results, section_scores,
                    system_name, assessor_name, ai_officer, ai_risk_owner,
                    policy_status, q1, q2, q3, q4, risk_assessment,
                    governance_plan, completed_assessments, clock >>

\* values picked in the widgets of the scenario: <<q1, q2, q3, q4>>
DecisionSamples ==
    { <<Q1Options[1], {}, {}, Q4Options[1]>>,
      <<Q1Options[1], key_concerns, essential_safeguards, Q4Options[4]>>,
      <<Q1Options[2], {"Reputational risk"}, {"Regulatory consultation"},
        Q4Options[5]>> }

\* the decision points of the scenario are answered
SetDecision(reaction, concerns, safeguards, frameworks) ==
    /\ current_page = "cases"
    /\ <<reaction, concerns, safeguards, frameworks>> # <<q1, q2, q3, q4>>
    /\ q1' = reaction
    /\ q2' = concerns
    /\ q3' = safeguards
    /\ q4' = frameworks
    /\ shown' = EmptyDict
    /\ exception' = "none"
    /\ UNCHANGED << current_page, responses, risk_scores, use_case_type,
                    jurisdictions, assessment_results, section_scores,
                    system_name, assessor_name, ai_officer, ai_risk_owner,
                    policy_status, report_format, risk_assessment,
                    governance_plan, completed_assessments, clock >>

Next ==
    \/ \E p \in Pages : Navigate(p)
    \/ \E c \in EditableCategories, r \in RadioSet :
          \E i \in EditableItems(Len(risk_categories[c].questions)) :
              SetResponse(c, i, r)
    \/ \E m \in UseCaseSamples : SetUseCase(m[1], m[2])
    \/ \E sec \in EditableSections, st \in StatusSet :
          \E i \in EditableItems(Len(assessment_sections[sec])) :
              SetStatus(sec, i, st)
    \/ \E m \in SystemSamples : SetSystemInformation(m[1], m[2])
    \/ \E m \in GovernanceSamples : SetGovernance(m[1], m[2], m[3])
    \/ \E k \in 1..Len(ReportFormats) : SetReportFormat(ReportFormats[k])
    \/ GenerateRiskAnalysis
    \/ GenerateAssessmentReport
    \/ GenerateGovernanceFramework
    \/ GenerateComprehensiveReport
    \/ ExportRiskAssessment
    \/ ExportGovernanceFramework
    \/ \E i \in 1..MaxHistory : DownloadAssessment(i)
    \/ \E m \in DecisionSamples : SetDecision(m[1], m[2], m[3], m[4])
    \/ SubmitDecision

Spec == Init /\ [][Next]_vars

(***************************************************************************)
(* The session with every operation of the application and one sample      *)
(* answer per page: the first radio of the questionnaire and the first      *)
(* status of the checklist are either the default or the failing answer.    *)
(***************************************************************************)
NextSession ==
    \/ \E p \in Pages : Navigate(p)
    \/ \E r \in {"Yes - Fully Implemented", "No - Not Addressed"} :
          SetResponse(Categories[1], 1, r)
    \/ \E m \in UseCaseSamples : SetUseCase(m[1], m[2])
    \/ \E st \in {"Not Assessed", "Non-Compliant"} :
          SetStatus(Sections[1], 1, st)
    \/ \E m \in SystemSamples : SetSystemInformation(m[1], m[2])
    \/ \E m \in GovernanceSamples : SetGovernance(m[1], m[2], m[3])
    \/ \E k \in 1..Len(ReportFormats) : SetReportFormat(ReportFormats[k])
    \/ GenerateRiskAnalysis
    \/ GenerateAssessmentReport
    \/ GenerateGovernanceFramework
    \/ GenerateComprehensiveReport
    \/ ExportRiskAssessment
    \/ ExportGovernanceFramework
    \/ \E i \in 1..MaxHistory : DownloadAssessment(i)
    \/ \E m \in DecisionSamples : SetDecision(m[1], m[2], m[3], m[4])
    \/ SubmitDecision

SpecSession == Init /\ [][NextSession]_vars

(***************************************************************************)
(* The scoring engine on bounded inputs, scored and then submitted: the    *)
(* questionnaire with one category answered in every possible way, and     *)
(* every uniform sheet with at most MaxChanged answers of one category     *)
(* (section) changed.                                                      *)
(***************************************************************************)
\* a uniform questionnaire (every answer b) with the questions D of
\* category f answered v
RiskInput(f, b, D, v) ==
    [c \in CategorySet |->
        [i \in 1..Len(risk_categories[c].questions) |->
            IF c = f /\ i \in D THEN v[i] ELSE b]]

\* the sets of questions of a category that are answered freely: any set
\* when the other answers are the default, at most MaxChanged otherwise
ChangedQuestions(f, b) ==
    {D \in SUBSET (1..Len(risk_categories[f].questions)) :
        b = RadioOptions[1] \/ Cardinality(D) <= MaxChanged}

\* a uniform checklist (every status b) with the items D of section f set to v
ChecklistInput(f, b, D, v) ==
    [s \in SectionSet |->
        [i \in 1..Len(assessment_sections[s]) |->
            IF s = f /\ i \in D THEN v[i] ELSE b]]

\* the sets of at most MaxChanged items of a section
ChangedItems(f) ==
    {D \in SUBSET (1..Len(assessment_sections[f])) : Cardinality(D) <= MaxChanged}

InitScore ==
    /\ SessionInit
    /\ use_case_type = DefaultUseCase
    /\ jurisdictions = << >>
    /\ system_name = ""
    /\ assessor_name = ""
    /\ ai_officer = ""
    /\ ai_risk_owner = ""
    /\ policy_status = DefaultPolicyStatus
    /\ report_format = ReportFormats[1]
    /\ q1 = Q1Options[1]
    /\ q2 = {}
    /\ q3 = {}
    /\ q4 = Q4Options[1]
    /\ shown = EmptyDict
    /\ clock = MaxClock - 1
    /\ \/ /\ current_page = "risk_tool"
          /\ \E f \in CategorySet, b \in RadioSet :
                \E D \in ChangedQuestions(f, b) :
                    \E v \in [D -> RadioSet] :
                        responses = RiskInput(f, b, D, v)
          /\ assessment_results = DefaultResults
          /\ risk_scores = RiskScores(responses)
          /\ section_scores = EmptyDict
       \/ /\ current_page = "assessment"
          /\ responses = DefaultResponses
          /\ \E f \in SectionSet, b \in StatusSet :
                \E D \in ChangedItems(f) :
                    \E v \in [D -> StatusSet] :
                        assessment_results = ChecklistInput(f, b, D, v)
          /\ risk_scores = EmptyDict
          /\ section_scores = SectionScores(assessment_results)
    /\ exception = RunException(risk_scores, section_scores)

NextScore == GenerateRiskAnalysis \/ GenerateAssessmentReport

SpecScore == InitScore /\ [][NextScore]_vars

(***************************************************************************)
(* The overall-score expressions on bounded inputs: any dict of at most    *)
(* MaxResults category (section) results, the empty dict included.         *)
(***************************************************************************)
Min(a, b) == IF a <= b THEN a ELSE b

\* the scores drawn: the tier boundaries, their neighbours and mid values
ScoreSamples ==
    { Rat(0), <<225, 4>>, <<59999, 1000>>, Rat(60), Rat(75),
      <<79999, 1000>>, Rat(80), Rat(100) }

\* the weights drawn for category c: none, unit, and the configured weight
WeightSamples(c) == { Rat(0), Rat(1), risk_categories[c].weight }

ResultCategories == {Categories[k] : k \in 1..Min(MaxResults, Len(Categories))}

ResultSections == {Sections[k] : k \in 1..Min(MaxResults, Len(Sections))}

InitOverall ==
    /\ SessionInit
    /\ WidgetDefaults
    /\ shown = EmptyDict
    /\ exception = "none"
    /\ clock = MaxClock - 1
    /\ \/ /\ current_page = "risk_tool"
          /\ \E D \in SUBSET ResultCategories :
                \E sc \in [D -> ScoreSamples] :
                    \E w \in [D -> UNION {WeightSamples(c) : c \in D}] :
                        /\ \A c \in D : w[c] \in WeightSamples(c)
                        /\ risk_scores =
                              [c \in D |-> [score |-> sc[c], weight |-> w[c]]]
          /\ section_scores = EmptyDict
       \/ /\ current_page = "assessment"
          /\ risk_scores = EmptyDict
          /\ \E D \in SUBSET ResultSections :
                section_scores \in [D -> ScoreSamples]

SpecOverall == InitOverall /\ [][NextScore]_vars

(***************************************************************************)
(* The lookups by name on bounded inputs: category results under names     *)
(* that mitigation_recommendations defines and under one it does not.      *)
(***************************************************************************)
\* a category name that no dict of the program defines
UndefinedCategory == "Model Drift"

InitLookup ==
    /\ SessionInit
    /\ WidgetDefaults
    /\ shown = EmptyDict
    /\ exception = "none"
    /\ clock = MaxClock - 1
    /\ \/ /\ current_page = "risk_tool"
          /\ \E D \in SUBSET (ResultCategories \cup {UndefinedCategory}) :
                \E sc \in [D -> ScoreSamples] :
                    risk_scores =
                        [c \in D |-> [score |-> sc[c], weight |-> Rat(1)]]
          /\ section_scores = EmptyDict
       \/ /\ current_page = "assessment"
          /\ risk_scores = EmptyDict
          /\ \E D \in SUBSET ResultSections :
                section_scores \in [D -> ScoreSamples]

SpecLookup == InitLookup /\ [][NextScore]_vars

(***************************************************************************)
(* Both families of inputs together: answer sheets scored by the loops, and *)
(* dicts of category (section) results given to the overall expressions.    *)
(***************************************************************************)
InitExamples == InitScore \/ InitOverall

SpecExamples == InitExamples /\ [][NextScore]_vars

(***************************************************************************)
(* The scenario on bounded inputs: every answer to the two radios, every   *)
(* selection of the options that earn points and at most MaxExtras of the  *)
(* options that earn none in each multiselect.                             *)
(***************************************************************************)
\* the selections drawn from the options of a multiselect
Selections(options, earning) ==
    {k \cup e : k \in SUBSET (options \cap earning),
                e \in {x \in SUBSET (options \ earning) :
                          Cardinality(x) <= MaxExtras}}

InitDecision ==
    /\ SessionInit
    /\ current_page = "cases"
    /\ responses = DefaultResponses
    /\ use_case_type = DefaultUseCase
    /\ jurisdictions = << >>
    /\ assessment_results = DefaultResults
    /\ system_name = ""
    /\ assessor_name = ""
    /\ ai_officer = ""
    /\ ai_risk_owner = ""
    /\ policy_status = DefaultPolicyStatus
    /\ report_format = ReportFormats[1]
    /\ q1 \in {Q1Options[k] : k \in 1..Len(Q1Options)}
    /\ q2 \in Selections(Q2Options, key_concerns)
    /\ q3 \in Selections(Q3Options, essential_safeguards)
    /\ q4 \in {Q4Options[k] : k \in 1..Len(Q4Options)}
    /\ risk_scores = EmptyDict
    /\ section_scores = EmptyDict
    /\ shown = EmptyDict
    /\ exception = "none"
    /\ clock = 0

NextDecision == SubmitDecision

SpecDecision == InitDecision /\ [][NextDecision]_vars

(***************************************************************************)
(* Properties of the category (section) scores.                            *)
(***************************************************************************)
\* a handler has displayed results or raised
Pressed == shown # EmptyDict \/ exception # "none"

InRange(x) == ~IsError(x) /\ RLe(Rat(0), x) /\ RLe(x, Rat(100))

StrictlyInside(x) == ~IsError(x) /\ RLt(Rat(0), x) /\ RLt(x, Rat(100))

\* the sequence without its i-th element
RemoveAt(seq, i) ==
    [k \in 1..(Len(seq) - 1) |-> IF k < i THEN seq[k] ELSE seq[k + 1]]

\* every category score and section score, computed or saved
AllCategoryScores ==
    {risk_scores[c].score : c \in DOMAIN risk_scores}
        \cup {section_scores[s] : s \in DOMAIN section_scores}
        \cup (IF risk_assessment = EmptyDict THEN {}
              ELSE {risk_assessment.category_scores[c] :
                        c \in DOMAIN risk_assessment.category_scores})
        \cup UNION {
                {completed_assessments[k].section_scores[s] :
                    s \in DOMAIN completed_assessments[k].section_scores} :
                k \in 1..Len(completed_assessments)}

\* C1: whatever the answers to the questions of a category (risk tool) or the
\* statuses of the items of a section (checklist), the score computed for it,
\* and the copy saved by the Generate handlers, is a number between 0 and 100.
C1_CategoryScoreBounds == \A x \in AllCategoryScores : InRange(x)

\* a saved risk analysis with a category strictly between 0 and 100 next to
\* a category at 100
C1_Witness ==
    /\ risk_assessment # EmptyDict
    /\ \E c, d \in DOMAIN risk_assessment.category_scores :
          /\ StrictlyInside(risk_assessment.category_scores[c])
          /\ risk_assessment.category_scores[d] = Rat(100)

\* the saved risk analyses (none or one) and the saved checklist records
SavedRiskRecords ==
    IF risk_assessment = EmptyDict THEN {} ELSE {risk_assessment}

SavedChecklistRecords ==
    {completed_assessments[k] : k \in 1..Len(completed_assessments)}

\* C2: a question answered N/A is excluded fully: in every saved record the
\* score of its category (section) is the score the same loop gives with
\* that question (item) removed from the category, the other answers
\* unchanged.
C2_NotApplicableExcluded ==
    /\ \A rec \in SavedRiskRecords :
          \A c \in DOMAIN rec.category_scores :
              \A i \in DOMAIN rec.responses[c] :
                  rec.responses[c][i] = "N/A" =>
                      rec.category_scores[c] =
                          CategoryScore(
                              RemoveAt(risk_categories[c].questions, i),
                              RemoveAt(rec.responses[c], i))
    /\ \A rec \in SavedChecklistRecords :
          \A s \in DOMAIN rec.section_scores :
              \A i \in DOMAIN rec.results[s] :
                  rec.results[s][i] = "N/A" =>
                      rec.section_scores[s] =
                          SectionScore(RemoveAt(assessment_sections[s], i),
                                       RemoveAt(rec.results[s], i))

\* a submitted questionnaire with one N/A in a category of mixed answers
\* whose score is below 100
C2_Witness ==
    /\ risk_assessment # EmptyDict
    /\ \E c \in DOMAIN risk_scores :
          /\ \E i \in DOMAIN responses[c] : responses[c][i] = "N/A"
          /\ \E i \in DOMAIN responses[c] :
                responses[c][i] = "Partial - In Progress"
          /\ \E i \in DOMAIN responses[c] :
                responses[c][i] = "No - Not Addressed"
          /\ StrictlyInside(risk_assessment.category_scores[c])

\* C3: a category (section) whose questions are all answered N/A scores
\* exactly 100, and neither the scoring loop nor the Generate handler raises.
C3_AllNotApplicable ==
    /\ \A c \in DOMAIN risk_scores :
          (\A i \in DOMAIN responses[c] : responses[c][i] = "N/A") =>
              /\ risk_scores[c].score = Rat(100)
              /\ exception = "none"
              /\ risk_assessment # EmptyDict =>
                    risk_assessment.category_scores[c] = Rat(100)
    /\ \A s \in DOMAIN section_scores :
          (\A i \in DOMAIN assessment_results[s] :
                assessment_results[s][i] = "N/A") =>
              /\ section_scores[s] = Rat(100)
              /\ exception = "none"
              /\ \A k \in 1..Len(completed_assessments) :
                    completed_assessments[k].section_scores[s] = Rat(100)

\* a submitted checklist with a section that is N/A throughout next to
\* sections that are not
C3_Witness ==
    /\ Len(completed_assessments) > 0
    /\ \E s, t \in DOMAIN section_scores :
          /\ \A i \in DOMAIN assessment_results[s] :
                assessment_results[s][i] = "N/A"
          /\ \E i \in DOMAIN assessment_results[t] :
                assessment_results[t][i] # "N/A"
          /\ completed_assessments[1].section_scores[s] = Rat(100)

\* C4: with the other answers of the category fixed, the score after one
\* answer goes from No / Non-Compliant to Partial, or from Partial to
\* Yes / Compliant, is at least the score saved before the upgrade.
C4_UpgradeMonotone ==
    /\ \A rec \in SavedRiskRecords :
          \A c \in DOMAIN rec.category_scores :
              \A i \in DOMAIN rec.responses[c] :
                  LET up(r) == CategoryScore(risk_categories[c].questions,
                                   [rec.responses[c] EXCEPT ![i] = r])
                  IN  /\ rec.responses[c][i] = "No - Not Addressed" =>
                            RLe(rec.category_scores[c],
                                up("Partial - In Progress"))
                      /\ rec.responses[c][i] = "Partial - In Progress" =>
                            RLe(rec.category_scores[c],
                                up("Yes - Fully Implemented"))
    /\ \A rec \in SavedChecklistRecords :
          \A s \in DOMAIN rec.section_scores :
              \A i \in DOMAIN rec.results[s] :
                  LET up(r) == SectionScore(assessment_sections[s],
                                   [rec.results[s] EXCEPT ![i] = r])
                  IN  /\ rec.results[s][i] = "Non-Compliant" =>
                            RLe(rec.section_scores[s], up("Partial"))
                      /\ rec.results[s][i] = "Partial" =>
                            RLe(rec.section_scores[s], up("Compliant"))

\* a saved category with a Partial answer among N/A and No answers, where
\* the upgrade to Yes strictly raises the score
C4_Witness ==
    \E rec \in SavedRiskRecords :
        \E c \in DOMAIN rec.category_scores :
            \E i, j, k \in DOMAIN rec.responses[c] :
                /\ rec.responses[c][i] = "Partial - In Progress"
                /\ rec.responses[c][j] = "N/A"
                /\ rec.responses[c][k] = "No - Not Addressed"
                /\ RLt(rec.category_scores[c],
                       CategoryScore(risk_categories[c].questions,
                           [rec.responses[c] EXCEPT
                               ![i] = "Yes - Fully Implemented"]))

RECURSIVE IntSum(_, _)
IntSum(f, S) ==
    IF S = {} THEN 0
    ELSE LET k == CHOOSE x \in S : TRUE IN f[k] + IntSum(f, S \ {k})

\* score = 100 * earned / total, for earned and total in the same unit
IsPercentage(score, earned, total) ==
    /\ ~IsError(score)
    /\ score[1] * total = 100 * earned * score[2]

IsTier(label, x, top, middle, bottom) ==
    /\ label \in {top, middle, bottom}
    /\ label = top <=> RGe(x, Rat(80))
    /\ label = middle <=> (RGe(x, Rat(60)) /\ RLt(x, Rat(80)))
    /\ label = bottom <=> RLt(x, Rat(60))

\* C6: every score displayed is put in exactly one of three tiers with closed
\* lower bounds 80 and 60 (Low / Medium / High, Pass / Review / Fail, Ready
\* for Production / Needs Improvement / Not Ready), the category scores and
\* the overall score alike, in the risk tool and in the checklist, and the
\* saved risk_level is the one displayed.
C6_ClassificationTiers ==
    shown # EmptyDict =>
        IF shown.page = "risk_tool"
        THEN /\ IsTier(shown.risk_level, shown.overall_score,
                       "Low", "Medium", "High")
             /\ risk_assessment.risk_level = shown.risk_level
             /\ risk_assessment.overall_score = shown.overall_score
             /\ \A c \in DOMAIN risk_scores :
                   IsTier(shown.category_levels[c], risk_scores[c].score,
                          "Low", "Medium", "High")
        ELSE /\ IsTier(shown.overall_status, shown.overall_score,
                       "Ready for Production", "Needs Improvement",
                       "Not Ready")
             /\ \A s \in DOMAIN section_scores :
                   IsTier(shown.section_status[s], section_scores[s],
                          "Pass", "Review", "Fail")

\* a risk analysis of one category at exactly 80, shown Low overall and in the
\* breakdown, next to a category at 79.999 shown Medium
C6_Witness ==
    /\ shown # EmptyDict
    /\ shown.page = "risk_tool"
    /\ shown.overall_score = Rat(80)
    /\ shown.risk_level = "Low"
    /\ \E c, d \in DOMAIN risk_scores :
          /\ risk_scores[c].score = Rat(80)
          /\ shown.category_levels[c] = "Low"
          /\ risk_scores[d].score = <<79999, 1000>>
          /\ shown.category_levels[d] = "Medium"

\* C7: the overall score saved by the risk tool is
\* sum(score_i * weight_i) / sum(weight_i) over the six categories with the
\* weights 1.0, 0.9, 0.85, 0.8, 0.9, 1.0, whose sum is 5.45.
C7_RiskOverallWeighted ==
    \A rec \in SavedRiskRecords :
        LET W == <<100, 90, 85, 80, 90, 100>>
            term == [k \in 1..Len(Categories) |->
                        RMul(rec.category_scores[Categories[k]],
                             Norm(W[k], 100))]
        IN  /\ DOMAIN rec.category_scores = CategorySet
            /\ ~IsError(rec.overall_score)
            /\ RMul(rec.overall_score, Norm(545, 100)) =
                   SumOver(term, 1..Len(Categories))

\* a saved risk analysis whose weighted overall score differs from the plain
\* mean of its category scores
C7_Witness ==
    \E rec \in SavedRiskRecords :
        /\ StrictlyInside(rec.overall_score)
        /\ rec.overall_score # ChecklistOverallScore(rec.category_scores)

\* C8: the overall score saved by the checklist is the arithmetic mean of
\* the section scores, and for a non-empty dict of scores the mean and the
\* weighted formula of the risk tool with every weight 1 give the same
\* number, whichever of the two handlers computes it.
C8_MeanIsUnitWeighted ==
    /\ \A rec \in SavedChecklistRecords :
          LET ss == rec.section_scores
          IN  DOMAIN ss # {} =>
                /\ ~IsError(rec.overall_score)
                /\ RMul(rec.overall_score, Rat(Cardinality(DOMAIN ss))) =
                       SumOver(ss, DOMAIN ss)
                /\ rec.overall_score =
                       RiskOverallScore(
                           [s \in DOMAIN ss |->
                               [score |-> ss[s], weight |-> Rat(1)]])
    /\ \A rec \in SavedRiskRecords :
          (/\ DOMAIN risk_scores # {}
           /\ \A c \in DOMAIN risk_scores : risk_scores[c].weight = Rat(1)) =>
              rec.overall_score = ChecklistOverallScore(rec.category_scores)

\* a saved checklist record of two different section scores, and so an
\* overall score strictly between them
C8_Witness ==
    \E rec \in SavedChecklistRecords :
        \E s, t \in DOMAIN rec.section_scores :
            /\ RLt(rec.section_scores[s], rec.overall_score)
            /\ RLt(rec.overall_score, rec.section_scores[t])

\* the overall score is computed over no category results, or over results
\* whose weights sum to zero
NothingToAverage ==
    \/ /\ current_page = "risk_tool"
       /\ SumOver([c \in DOMAIN risk_scores |-> risk_scores[c].weight],
                  DOMAIN risk_scores) = Rat(0)
    \/ /\ current_page = "assessment"
       /\ DOMAIN section_scores = {}

C10_OverallScoreBounds ==
    /\ \A rec \in SavedRiskRecords \cup SavedChecklistRecords :
          InRange(rec.overall_score)
    /\ shown # EmptyDict => InRange(shown.overall_score)

\* a saved risk analysis of a questionnaire answered No throughout: overall 0
C10_Witness ==
    \E rec \in SavedRiskRecords :
        /\ rec.overall_score = Rat(0)
        /\ \A c \in DOMAIN rec.responses :
              \A i \in DOMAIN rec.responses[c] :
                  rec.responses[c][i] = "No - Not Addressed"

(***************************************************************************)
(* Worked examples.                                                        *)
(***************************************************************************)
\* the answers of the questions of a category that are not N/A, in order,
\* with their weights: <<weights, answers>>
RECURSIVE Applicable(_, _, _)
Applicable(questions, answers, n) ==
    IF n = 0 THEN << << >>, << >> >>
    ELSE LET rest == Applicable(questions, answers, n - 1)
         IN  IF answers[n] = "N/A" THEN rest
             ELSE <<Append(rest[1], questions[n]), Append(rest[2], answers[n])>>

\* the scores of the dict are exactly 56.25 and 75.0, one each
IsExamplePair(scores) ==
    /\ Cardinality(DOMAIN scores) = 2
    /\ {scores[k] : k \in DOMAIN scores} = {<<225, 4>>, Rat(75)}

\* C11: the worked examples.  A category whose applicable questions weigh
\* 3, 3, 2 and are answered Yes, Partial, No scores 56.25 and is shown High;
\* with the third answer N/A (applicable weights 3, 3) it scores 75.0 and is
\* shown Medium; two results 56.25 and 75.0 of weight 1 each, or averaged
\* by the checklist, give the overall score 65.625, in the middle tier.
C11_WorkedExamples ==
    /\ CategoryScore(<<3, 3, 2>>,
          << "Yes - Fully Implemented", "Partial - In Progress",
             "No - Not Addressed" >>) = <<225, 4>>
    /\ CategoryScore(<<3, 3, 2>>,
          << "Yes - Fully Implemented", "Partial - In Progress", "N/A" >>)
            = Rat(75)
    /\ \A rec \in SavedRiskRecords :
          \A c \in DOMAIN rec.category_scores \cap DOMAIN rec.responses :
              LET app == Applicable(risk_categories[c].questions,
                                    rec.responses[c],
                                    Len(rec.responses[c]))
              IN  /\ app = << <<3, 3, 2>>,
                              << "Yes - Fully Implemented",
                                 "Partial - In Progress",
                                 "No - Not Addressed" >> >> =>
                        /\ rec.category_scores[c] = <<225, 4>>
                        /\ shown.category_levels[c] = "High"
                  /\ app = << <<3, 3>>,
                              << "Yes - Fully Implemented",
                                 "Partial - In Progress" >> >> =>
                        /\ rec.category_scores[c] = Rat(75)
                        /\ shown.category_levels[c] = "Medium"
    /\ (/\ shown # EmptyDict
        /\ shown.page = "risk_tool"
        /\ IsExamplePair([c \in DOMAIN risk_scores |-> risk_scores[c].score])
        /\ \A c \in DOMAIN risk_scores : risk_scores[c].weight = Rat(1)) =>
            /\ shown.overall_score = <<525, 8>>
            /\ shown.risk_level = "Medium"
            /\ risk_assessment.overall_score = <<525, 8>>
            /\ risk_assessment.risk_level = "Medium"
    /\ (/\ shown # EmptyDict
        /\ shown.page = "assessment"
        /\ IsExamplePair(section_scores)) =>
            /\ shown.overall_score = <<525, 8>>
            /\ shown.overall_status = "Needs Improvement"

\* a saved risk analysis whose first category is answered Yes, Partial, No,
\* N/A, N/A over the weights 3, 3, 2, 2, 2: it scores 56.25 and is shown High
C11_Witness ==
    /\ shown # EmptyDict
    /\ shown.page = "risk_tool"
    /\ risk_assessment # EmptyDict
    /\ risk_assessment.responses[Categories[1]] =
          << "Yes - Fully Implemented", "Partial - In Progress",
             "No - Not Addressed", "N/A", "N/A" >>
    /\ risk_assessment.category_scores[Categories[1]] = <<225, 4>>
    /\ shown.category_levels[Categories[1]] = "High"

(***************************************************************************)
(* Critical issues and priority weights of the checklist.                  *)
(***************************************************************************)
\* the number of items of section s that are Critical and Non-Compliant
CriticalNonCompliant(results, s) ==
    Cardinality({i \in 1..Len(assessment_sections[s]) :
        /\ assessment_sections[s][i] = "Critical"
        /\ results[s][i] = "Non-Compliant"})

\* C12: the number of critical issues displayed is the number of checklist
\* items, over all sections, whose priority is Critical and whose status is
\* Non-Compliant; it is not folded into the score: the overall score
\* displayed and saved is the mean of the section scores and the readiness
\* status is the tier of that score, whatever the count.
C12_CriticalIssuesNotFolded ==
    (shown # EmptyDict /\ shown.page = "assessment") =>
        /\ shown.critical_issues =
              IntSum([s \in SectionSet |->
                         CriticalNonCompliant(assessment_results, s)],
                     SectionSet)
        /\ DOMAIN section_scores # {} =>
              RMul(shown.overall_score, Rat(Cardinality(DOMAIN section_scores)))
                  = SumOver(section_scores, DOMAIN section_scores)
        /\ IsTier(shown.overall_status, shown.overall_score,
                  "Ready for Production", "Needs Improvement", "Not Ready")
        /\ completed_assessments[Len(completed_assessments)].overall_score
              = shown.overall_score

\* a checklist with a Critical item Non-Compliant that is still shown Ready
\* for Production
C12_Witness ==
    /\ shown # EmptyDict
    /\ shown.page = "assessment"
    /\ shown.critical_issues > 0
    /\ shown.overall_status = "Ready for Production"
    /\ \E s \in SectionSet : CriticalNonCompliant(assessment_results, s) > 0

\* the weight table of the claim, in quarters: 3, 2, 1 and 0.5
PriorityTable ==
    ("Critical" :> 12) @@ ("High" :> 8) @@ ("Medium" :> 4) @@ ("Low" :> 2)

\* C13: the weight of a checklist item is given by its priority label
\* through the mapping Critical -> 3, High -> 2, Medium -> 1, Low -> 0.5:
\* every item carries one of the four labels, the weight the loop uses is
\* the table's, and every saved section score is 100 * earned / total under
\* the table's weights, for each record of the history alike.
C13_PriorityWeights ==
    /\ \A s \in SectionSet :
          \A i \in 1..Len(assessment_sections[s]) :
              LET label == assessment_sections[s][i]
              IN  /\ label \in DOMAIN PriorityTable
                  /\ Quarters(priority_weight(label)) = PriorityTable[label]
    /\ \A rec \in SavedChecklistRecords :
          \A s \in DOMAIN rec.section_scores \cap DOMAIN rec.results :
              LET ans == rec.results[s]
                  w(i) == PriorityTable[assessment_sections[s][i]]
                  earned == IntSum([i \in DOMAIN ans |->
                      IF ans[i] = "Compliant" THEN w(i)
                      ELSE IF ans[i] = "Partial" THEN w(i) \div 2
                      ELSE 0], DOMAIN ans)
                  total == IntSum([i \in DOMAIN ans |->
                      IF ans[i] = "N/A" THEN 0 ELSE w(i)], DOMAIN ans)
              IN  total > 0 =>
                      IsPercentage(rec.section_scores[s], earned, total)

\* a saved checklist whose only credited item is the Low one: its section
\* scores 100 * 0.5 / 17.5
C13_Witness ==
    \E rec \in SavedChecklistRecords :
        \E s \in DOMAIN rec.section_scores \cap DOMAIN rec.results :
            \E i \in DOMAIN rec.results[s] :
                /\ assessment_sections[s][i] = "Low"
                /\ rec.results[s][i] = "Compliant"
                /\ \A j \in DOMAIN rec.results[s] \ {i} :
                      rec.results[s][j] = "Not Assessed"
                /\ rec.section_scores[s] = <<20, 7>>

(***************************************************************************)
(* The comprehensive report.                                               *)
(***************************************************************************)
\* the last run offered the comprehensive report in the given format
ReportOffered(mime) ==
    /\ shown # EmptyDict
    /\ shown.page = "export"
    /\ "success" \in DOMAIN shown
    /\ shown.mime = mime

JsonMime == "application/json"

DocxMime ==
    "application/vnd.openxmlformats-officedocument.wordprocessingml.document"

NothingCompleted ==
    /\ risk_assessment = EmptyDict
    /\ governance_plan = EmptyDict
    /\ completed_assessments = << >>

\* the elements of a document from the heading of level 1 with the given
\* text up to the next heading of level 1
DocSection(doc, title) ==
    LET IsH1(e) == e.style = "Heading" /\ e.level = 1
        start == CHOOSE i \in 1..Len(doc) : IsH1(doc[i]) /\ doc[i].text = title
        later == {j \in (start + 1)..Len(doc) : IsH1(doc[j])}
        stop == IF later = {} THEN Len(doc) + 1
                ELSE CHOOSE j \in later : \A l \in later : j <= l
    IN  SubSeq(doc, start + 1, stop - 1)

NotCompleted ==
    [risk |-> Paragraph(<<"Risk assessment not yet completed.">>),
     governance |-> Paragraph(<<"Governance framework not yet generated.">>),
     ethical |-> Paragraph(<<"No ethical assessments completed.">>)]

\* the elements of the sequence, as a set
Elements(seq) == {seq[k] : k \in 1..Len(seq)}

\* the texts of the headings of level 1 of a document, in order
TopHeadings(doc) ==
    LET hs == SelectSeq(doc, LAMBDA e : e.style = "Heading" /\ e.level = 1)
    IN  [k \in 1..Len(hs) |-> hs[k].text]

ReportedAssessments(doc) ==
    LET eth == DocSection(doc, "4. Ethical Assessments")
        at == SelectSeq([k \in 1..Len(eth) |-> k],
                        LAMBDA k : eth[k].style = "Heading")
    IN  [n \in 1..Len(at) |->
            [number |-> eth[at[n]].text[2],
             system_name |-> eth[at[n]].text[4],
             date |-> eth[at[n] + 2].text[2]]]

\* C16: the report lists the ethical assessments in the order in which they
\* were completed, one entry per completed assessment and no deduplication:
\* the history is in completion order (its timestamps increase), the JSON
\* payload carries it unchanged, and the document has for the k-th
\* assessment completed a subsection numbered k with its system name and
\* its timestamp, also when system names repeat.
C16_ReportKeepsCompletionOrder ==
    /\ \A i, j \in 1..Len(completed_assessments) :
          i < j => completed_assessments[i].timestamp
                      < completed_assessments[j].timestamp
    /\ ReportOffered(JsonMime) =>
          shown.data[4] = <<"ethical_assessments", completed_assessments>>
    /\ ReportOffered(DocxMime) =>
          LET listed == ReportedAssessments(shown.data)
          IN  /\ Len(listed) = Len(completed_assessments)
              /\ \A k \in 1..Len(listed) :
                    /\ listed[k].number = k
                    /\ listed[k].system_name =
                          completed_assessments[k].system_name
                    /\ listed[k].date = completed_assessments[k].timestamp

\* a document generated after the same system was assessed twice: two
\* subsections
C16_Witness ==
    /\ ReportOffered(DocxMime)
    /\ Len(completed_assessments) = 2
    /\ completed_assessments[1].system_name
          = completed_assessments[2].system_name
    /\ Len(ReportedAssessments(shown.data)) = 2

(***************************************************************************)
(* The assessment history and the saved records.                           *)
(***************************************************************************)
\* the step completes a checklist submission: the button of the checklist
\* was pressed and its results are displayed
SubmissionCompleted ==
    /\ current_page = "assessment"
    /\ clock' = clock + 1
    /\ shown' # EmptyDict
    /\ shown'.page = "assessment"

\* C17: the history is append-only.  A step that completes a checklist
\* submission adds exactly one record at the end, and every other step of
\* the application (navigation, widget edits, the other Generate buttons,
\* the report) leaves the history as it is: no record already appended is
\* removed, moved or modified.
C17_HistoryAppendOnly ==
    [][/\ SubSeq(completed_assessments', 1, Len(completed_assessments))
              = completed_assessments
       /\ IF SubmissionCompleted
          THEN /\ Len(completed_assessments')
                    = Len(completed_assessments) + 1
               /\ completed_assessments'[Len(completed_assessments')].timestamp
                    = clock
          ELSE completed_assessments' = completed_assessments]_vars

\* a history of two records that has since been through a navigation to the
\* export page and the generation of a report
C17_Witness ==
    /\ Len(completed_assessments) = 2
    /\ completed_assessments[1].timestamp < completed_assessments[2].timestamp
    /\ current_page = "export"
    /\ ReportOffered(JsonMime)

\* the keys a record may hold its overall classification under
ClassificationKeys ==
    {"risk_level", "overall_status", "classification", "status"}

\* C18 as claimed: every record saved to the session, the risk assessment
\* and each record of the history, holds a timestamp, the per-category
\* scores, the overall score, the overall classification and the full map
\* of answers.
C18_RecordsComplete ==
    /\ \A rec \in SavedRiskRecords :
          /\ {"timestamp", "category_scores", "overall_score", "responses"}
                \subseteq DOMAIN rec
          /\ DOMAIN rec \cap ClassificationKeys # {}
    /\ \A rec \in SavedChecklistRecords :
          /\ {"timestamp", "section_scores", "overall_score", "results"}
                \subseteq DOMAIN rec
          /\ DOMAIN rec \cap ClassificationKeys # {}

(***************************************************************************)
(* Lookups by name.                                                        *)
(***************************************************************************)
\* priority labels that the weight table does not define
UndefinedLabels == {"Urgent", "critical", ""}

RenderFailed == current_page = "export" /\ exception = "Exception"

\* C20 as claimed: when rendering the document fails, the run falls back
\* to the JSON export of the same payload, so the collected data is still
\* offered for download.
C20_RenderFailureFallsBack ==
    RenderFailed =>
        /\ ReportOffered(JsonMime)
        /\ shown.data[2][2] = risk_assessment
        /\ shown.data[3][2] = governance_plan
        /\ shown.data[4][2] = completed_assessments

(***************************************************************************)
(* Frame of the handlers: what each operation leaves alone.                *)
(***************************************************************************)
\* the three session variables
session == << risk_assessment, governance_plan, completed_assessments >>

\* the step is a press of a button of the export page: the comprehensive
\* report in either format, rendered or failed, or an individual export
ExportPressed ==
    /\ current_page = "export"
    /\ current_page' = "export"
    /\ shown' # EmptyDict \/ exception' # "none"

\* C21: generating the comprehensive report, in either format and whether
\* the rendering succeeds or raises, leaves risk_assessment, governance_plan
\* and completed_assessments as they were, and so does each individual JSON
\* export; what is offered for download carries the values of the session.
C21_ExportLeavesSession ==
    [][ExportPressed =>
          /\ UNCHANGED session
          /\ (shown' # EmptyDict /\ shown'.mime = JsonMime
                /\ "success" \in DOMAIN shown') =>
                /\ shown'.data[2][2] = risk_assessment'
                /\ shown'.data[3][2] = governance_plan'
                /\ shown'.data[4][2] = completed_assessments']_vars

\* a rendering that failed in a session holding a risk assessment, a
\* governance plan and a history, all three still there
C21_Witness ==
    /\ RenderFailed
    /\ risk_assessment # EmptyDict
    /\ governance_plan # EmptyDict
    /\ completed_assessments # << >>

\* the widgets and the page selected
widgets ==
    << current_page, responses, use_case_type, jurisdictions,
       assessment_results, system_name, assessor_name, other_widgets >>

\* the step displays the results of the Generate button of the given page
Generated(page) ==
    /\ current_page = page
    /\ shown' # EmptyDict
    /\ shown'.page = page

\* C22: scoring has no side effects.  A step that changes an answer, a
\* metadata field or the selected page rescores the page and leaves the
\* three session variables as they were; risk_assessment changes only in a
\* step of Generate Risk Analysis, governance_plan only in a step of
\* Generate Governance Framework, completed_assessments only in a step of
\* Generate Assessment Report, and such a step leaves the other two alone.
C22_OnlyGenerateWrites ==
    [][/\ widgets' # widgets => UNCHANGED session
       /\ risk_assessment' # risk_assessment =>
             /\ Generated("risk_tool")
             /\ UNCHANGED << governance_plan, completed_assessments >>
       /\ governance_plan' # governance_plan =>
             /\ Generated("governance")
             /\ UNCHANGED << risk_assessment, completed_assessments >>
       /\ completed_assessments' # completed_assessments =>
             /\ Generated("assessment")
             /\ UNCHANGED << risk_assessment, governance_plan >>]_vars

\* an answer of the questionnaire changed after an analysis was saved: the
\* page is rescored and the saved analysis still holds the earlier answers
C22_Witness ==
    /\ current_page = "risk_tool"
    /\ shown = EmptyDict
    /\ risk_assessment # EmptyDict
    /\ risk_assessment.responses # responses
    /\ risk_assessment.category_scores
          # [c \in DOMAIN risk_scores |-> risk_scores[c].score]

(***************************************************************************)
(* Last write wins.                                                        *)
(***************************************************************************)
\* C23: the risk assessment and the governance plan keep no history.  Each
\* press of Generate Risk Analysis replaces the stored record by the one
\* computed from the answers and the metadata current at that press, each
\* press of Generate Governance Framework replaces the stored plan by the
\* one built from the current widgets, whatever was stored before; and the
\* answers map of the stored risk assessment holds one answer per question.
C23_LastWriteWins ==
    [][/\ Generated("risk_tool") =>
             risk_assessment' =
                [timestamp |-> clock,
                 use_case |-> use_case_type,
                 jurisdictions |-> jurisdictions,
                 overall_score |-> shown'.overall_score,
                 risk_level |-> shown'.risk_level,
                 category_scores |->
                    [c \in CategorySet |->
                        CategoryScore(risk_categories[c].questions,
                                      responses[c])],
                 responses |-> responses]
       /\ Generated("governance") =>
             governance_plan' =
                [structure |-> [ai_officer |-> ai_officer,
                                ai_risk_owner |-> ai_risk_owner],
                 policies |-> policy_status]
       /\ risk_assessment' # EmptyDict =>
             /\ DOMAIN risk_assessment'.responses = CategorySet
             /\ \A c \in CategorySet :
                   /\ DOMAIN risk_assessment'.responses[c] =
                         1..Len(risk_categories[c].questions)
                   /\ \A i \in DOMAIN risk_assessment'.responses[c] :
                         risk_assessment'.responses[c][i] \in RadioSet]_vars

\* the record of a second press of Generate Risk Analysis (the clock read
\* 1 and no checklist was submitted), made after an answer was changed,
\* next to a stored governance plan
C23_Witness ==
    /\ risk_assessment # EmptyDict
    /\ risk_assessment.timestamp = 1
    /\ completed_assessments = << >>
    /\ risk_assessment.responses # DefaultResponses
    /\ risk_assessment.overall_score # Rat(100)
    /\ governance_plan # EmptyDict

(***************************************************************************)
(* Consistency of the stored risk assessment.                              *)
(***************************************************************************)
\* C24: a stored risk assessment is consistent with itself: its risk_level
\* is the tier of its stored overall_score (Low from 80, Medium from 60,
\* High below), its category_scores has one entry for each of the six
\* categories, and its overall_score is the average of those stored scores
\* weighted by the category weights.
C24_StoredRiskConsistent ==
    risk_assessment # EmptyDict =>
        LET scores == risk_assessment.category_scores
            weighted == [c \in CategorySet |->
                            RMul(scores[c], risk_categories[c].weight)]
            weights == [c \in CategorySet |-> risk_categories[c].weight]
        IN  /\ DOMAIN scores = CategorySet
            /\ Cardinality(DOMAIN scores) = 6
            /\ IsTier(risk_assessment.risk_level,
                      risk_assessment.overall_score, "Low", "Medium", "High")
            /\ risk_assessment.overall_score =
                  RDiv(SumOver(weighted, CategorySet),
                       SumOver(weights, CategorySet))

\* a stored risk assessment rated High with an overall score strictly
\* between two of its category scores
C24_Witness ==
    /\ risk_assessment # EmptyDict
    /\ risk_assessment.risk_level = "High"
    /\ \E c, d \in CategorySet :
          /\ RLt(risk_assessment.category_scores[c],
                 risk_assessment.overall_score)
          /\ RLt(risk_assessment.overall_score,
                 risk_assessment.category_scores[d])

(***************************************************************************)
(* Recommendations of the risk tool.                                       *)
(***************************************************************************)
\* the categories of the questionnaire scoring below 70
BelowSeventy == {c \in DOMAIN risk_scores : RLt(risk_scores[c].score, Rat(70))}

\* C25: the risk analysis shows recommendations for exactly the categories
\* scoring below 70, and the "Good Risk Posture" message exactly when no
\* category scores below 70; whenever the message is shown the overall
\* score is at least 70 and the risk level is Low or Medium, never High.
C25_RecommendationsBelowSeventy ==
    (shown # EmptyDict /\ shown.page = "risk_tool") =>
        /\ DOMAIN shown.recommendations = BelowSeventy
        /\ shown.good_risk_posture <=> BelowSeventy = {}
        /\ shown.good_risk_posture <=> DOMAIN shown.recommendations = {}
        /\ shown.good_risk_posture =>
              /\ RGe(shown.overall_score, Rat(70))
              /\ shown.risk_level \in {"Low", "Medium"}
              /\ risk_assessment.risk_level # "High"

\* an analysis shown with "Good Risk Posture" although a category scores
\* exactly 70
C25_Witness ==
    /\ shown # EmptyDict
    /\ shown.page = "risk_tool"
    /\ shown.good_risk_posture
    /\ \E c \in DOMAIN risk_scores : risk_scores[c].score = Rat(70)
    /\ RLt(shown.overall_score, Rat(100))

(***************************************************************************)
(* A category that is Not-Applicable throughout.                           *)
(***************************************************************************)
AllNotApplicable(answers) == \A i \in DOMAIN answers : answers[i] = "N/A"

\* other ways of answering a category of n questions: the same answer to
\* every question, for each of the options
AlternativeAnswers(n, options) == {[i \in 1..n |-> r] : r \in options}

\* C26: a category (section) whose questions are all N/A is not left out of
\* the overall score.  In every saved record it has the score 100 and the
\* overall score is the average that counts it at 100, with its category
\* weight in the risk tool and with equal weight in the checklist; that
\* overall score is at least the average of the other categories alone,
\* strictly above it when they average below 100, and at least the overall
\* score of the same sheet with the category answered uniformly with any
\* of the options.
C26_NotApplicableCategoryCounts ==
    /\ \A rec \in SavedRiskRecords :
          \A c \in CategorySet :
              AllNotApplicable(rec.responses[c]) =>
                  LET others == CategorySet \ {c}
                      w == [k \in CategorySet |-> risk_categories[k].weight]
                      rest == SumOver([k \in others |->
                                  RMul(rec.category_scores[k], w[k])], others)
                      excluded == RDiv(rest, SumOver(w, others))
                  IN  /\ c \in DOMAIN rec.category_scores
                      /\ rec.category_scores[c] = Rat(100)
                      /\ RMul(rec.overall_score, SumOver(w, CategorySet))
                            = RAdd(rest, RMul(Rat(100), w[c]))
                      /\ RLe(excluded, rec.overall_score)
                      /\ RLt(excluded, Rat(100)) =>
                            RLt(excluded, rec.overall_score)
                      /\ \A alt \in AlternativeAnswers(
                                Len(rec.responses[c]), RadioSet) :
                            RLe(RiskOverallScore(RiskScores(
                                    [rec.responses EXCEPT ![c] = alt])),
                                rec.overall_score)
    /\ \A rec \in SavedChecklistRecords :
          \A s \in SectionSet :
              AllNotApplicable(rec.results[s]) =>
                  LET others == SectionSet \ {s}
                      rest == SumOver([k \in others |->
                                  rec.section_scores[k]], others)
                      excluded == RDiv(rest, Rat(Cardinality(others)))
                  IN  /\ s \in DOMAIN rec.section_scores
                      /\ rec.section_scores[s] = Rat(100)
                      /\ RMul(rec.overall_score, Rat(Cardinality(SectionSet)))
                            = RAdd(rest, Rat(100))
                      /\ RLe(excluded, rec.overall_score)
                      /\ RLt(excluded, Rat(100)) =>
                            RLt(excluded, rec.overall_score)
                      /\ \A alt \in AlternativeAnswers(
                                Len(rec.results[s]), StatusSet) :
                            RLe(ChecklistOverallScore(SectionScores(
                                    [rec.results EXCEPT ![s] = alt])),
                                rec.overall_score)

\* a saved checklist with a section N/A throughout and another section
\* scoring 0: the overall score is above the mean of the other sections
C26_Witness ==
    \E rec \in SavedChecklistRecords :
        \E s, t \in SectionSet :
            /\ AllNotApplicable(rec.results[s])
            /\ rec.section_scores[s] = Rat(100)
            /\ rec.section_scores[t] = Rat(0)
            /\ RLt(RDiv(SumOver([k \in SectionSet \ {s} |->
                                    rec.section_scores[k]], SectionSet \ {s}),
                        Rat(Cardinality(SectionSet) - 1)),
                   rec.overall_score)

(***************************************************************************)
(* Untouched widgets.                                                      *)
(***************************************************************************)
\* C27: with the widgets left at their default selection, the first option
\* of each control, the risk tool takes every question as "Yes - Fully
\* Implemented" and its analysis shows and saves the overall score 100 with
\* the risk level Low, whereas the checklist takes every item as "Not
\* Assessed" and its report shows every section score 0 (Fail), the overall
\* score 0, the status "Not Ready" and 0 critical issues.
C27_UntouchedDefaults ==
    /\ (shown # EmptyDict /\ shown.page = "risk_tool"
            /\ responses = DefaultResponses) =>
          /\ \A c \in CategorySet :
                \A i \in DOMAIN responses[c] :
                    /\ responses[c][i] = RadioOptions[1]
                    /\ responses[c][i] = "Yes - Fully Implemented"
          /\ shown.overall_score = Rat(100)
          /\ shown.risk_level = "Low"
          /\ risk_assessment.overall_score = Rat(100)
          /\ risk_assessment.risk_level = "Low"
    /\ (shown # EmptyDict /\ shown.page = "assessment"
            /\ assessment_results = DefaultResults) =>
          /\ \A s \in SectionSet :
                /\ \A i \in DOMAIN assessment_results[s] :
                      /\ assessment_results[s][i] = StatusOptions[1]
                      /\ assessment_results[s][i] = "Not Assessed"
                /\ section_scores[s] = Rat(0)
                /\ shown.section_status[s] = "Fail"
          /\ shown.overall_score = Rat(0)
          /\ shown.overall_status = "Not Ready"
          /\ shown.critical_issues = 0
          /\ completed_assessments[Len(completed_assessments)].overall_score
                = Rat(0)

\* a session that pressed both Generate buttons without touching a widget:
\* the checklist report shows 0 and Not Ready, the saved risk analysis 100
C27_Witness ==
    /\ shown # EmptyDict
    /\ shown.page = "assessment"
    /\ assessment_results = DefaultResults
    /\ shown.overall_status = "Not Ready"
    /\ risk_assessment # EmptyDict
    /\ risk_assessment.responses = DefaultResponses
    /\ risk_assessment.risk_level = "Low"

(***************************************************************************)
(* Items requiring attention.                                              *)
(***************************************************************************)
\* the items of the checklist whose status is Non-Compliant or Partial
Flagged ==
    {it \in UNION {{s} \X DOMAIN assessment_results[s] : s \in SectionSet} :
        assessment_results[it[1]][it[2]] \in {"Non-Compliant", "Partial"}}

\* the place of a priority label in Critical, High, Medium, Low
PriorityPlace(label) ==
    CHOOSE k \in 1..4 : << "Critical", "High", "Medium", "Low" >>[k] = label

\* C28: the "Items Requiring Attention" table of the checklist report lists
\* exactly the items whose status is Non-Compliant or Partial, each once
\* with its priority and status, ordered Critical, High, Medium, Low; an
\* item left Not Assessed is never listed, and the "all assessed items are
\* compliant" message is shown exactly when no item is Non-Compliant or
\* Partial, whatever the overall status.
C28_AttentionItems ==
    (shown # EmptyDict /\ shown.page = "assessment") =>
        LET listed == shown.attention_items
        IN  /\ {listed[k].ID : k \in 1..Len(listed)} = Flagged
            /\ Len(listed) = Cardinality(Flagged)
            /\ \A k \in 1..Len(listed) :
                  LET it == listed[k].ID
                  IN  /\ listed[k].Status = assessment_results[it[1]][it[2]]
                      /\ listed[k].Status # "Not Assessed"
                      /\ listed[k].Priority = assessment_sections[it[1]][it[2]]
            /\ \A k \in 1..(Len(listed) - 1) :
                  PriorityPlace(listed[k].Priority)
                      <= PriorityPlace(listed[k + 1].Priority)
            /\ shown.all_compliant <=> Flagged = {}

\* a checklist left Not Assessed but for one compliant item: rated Not
\* Ready and shown with the "all assessed items are compliant" message
C28_Witness ==
    /\ shown # EmptyDict
    /\ shown.page = "assessment"
    /\ shown.all_compliant
    /\ shown.attention_items = << >>
    /\ shown.overall_status = "Not Ready"
    /\ \E s \in SectionSet :
          \E i, j \in DOMAIN assessment_results[s] :
              /\ assessment_results[s][i] = "Not Assessed"
              /\ assessment_results[s][j] = "Compliant"

(***************************************************************************)
(* Completion is stable.                                                   *)
(***************************************************************************)
\* the document offered, if one is, has none of the given sentences
DocumentWithout(sentences) ==
    ReportOffered(DocxMime) => Elements(shown.data) \cap sentences = {}

\* C29: the three session variables start empty, and none of them, once
\* non-empty, becomes empty again in any step of the session; so a document
\* generated after a section was completed does not report that section as
\* not completed.
C29_CompletionStable ==
    /\ risk_assessment = EmptyDict
    /\ governance_plan = EmptyDict
    /\ completed_assessments = << >>
    /\ [][/\ risk_assessment # EmptyDict =>
                /\ risk_assessment' # EmptyDict
                /\ DocumentWithout({NotCompleted.risk})'
          /\ governance_plan # EmptyDict =>
                /\ governance_plan' # EmptyDict
                /\ DocumentWithout({NotCompleted.governance})'
          /\ completed_assessments # << >> =>
                /\ completed_assessments' # << >>
                /\ DocumentWithout({NotCompleted.ethical})']_vars

\* a document generated with all three sections completed, after the
\* navigations that led to the export page
C29_Witness ==
    /\ ReportOffered(DocxMime)
    /\ risk_assessment # EmptyDict
    /\ governance_plan # EmptyDict
    /\ completed_assessments # << >>
    /\ Elements(shown.data)
          \cap {NotCompleted.risk, NotCompleted.governance,
                NotCompleted.ethical} = {}

(***************************************************************************)
(* The interactive scenario.                                               *)
(***************************************************************************)
\* the place of the answer among the options of its radio
Place(options, answer) == CHOOSE k \in 1..Len(options) : options[k] = answer

\* C30: the score of a submitted decision is an integer from 0 to 110, the
\* sum of 0 (Approve), 25 (Conditional approval, Request more information)
\* or 20 (Decline) for decision point 1, 10 per key concern selected (at
\* most 40), 10 per essential safeguard selected (at most 30), and 15 for
\* "All of the above" alone at decision point 4; the card shown is Excellent
\* from 70, Good Foundation from 50 to 69 and Significant Risk Exposure
\* below 50, whatever decision point 1 was answered.
C30_DecisionScore ==
    (shown # EmptyDict /\ shown.page = "cases") =>
        LET reaction == << 0, 25, 25, 20 >>[Place(Q1Options, q1)]
            concerns ==
                10 * Cardinality(q2 \cap
                    { "Potential for discrimination based on protected characteristics",
                      "Privacy and consent issues",
                      "Difficulty in explaining decisions to consumers",
                      "Regulatory compliance uncertainty" })
            safeguards ==
                10 * Cardinality(q3 \cap
                    { "Comprehensive disparate impact testing",
                      "Explainability solution for adverse actions",
                      "Ongoing fairness monitoring" })
            frameworks == << 0, 0, 0, 15, 0 >>[Place(Q4Options, q4)]
        IN  /\ shown.score \in 0..110
            /\ concerns <= 40
            /\ safeguards <= 30
            /\ shown.score = reaction + concerns + safeguards + frameworks
            /\ shown.card = "Excellent Risk Assessment" <=> shown.score >= 70
            /\ shown.card = "Good Foundation, Room for Improvement"
                  <=> (shown.score >= 50 /\ shown.score < 70)
            /\ shown.card = "Significant Risk Exposure" <=> shown.score < 50

\* an unconditional Approve that selects every key concern and every
\* essential safeguard and answers "All of the above": 85, Excellent
C30_Witness ==
    /\ shown # EmptyDict
    /\ shown.page = "cases"
    /\ q1 = Q1Options[1]
    /\ shown.score = 85
    /\ shown.card = "Excellent Risk Assessment"

====
